---- MODULE Spec2Model ----
(***************************************************************************)
(* StreamerPulse: the rolling-window MetricsAggregator of the ingestion    *)
(* worker (baselines, spike detection, session reset) and the alert        *)
(* arbitration of the /api/coach-summary route (cooldowns, author memory,  *)
(* sort / dedup / budget).                                                  *)
(*                                                                         *)
(* Numbers: timestamps and durations are milliseconds.  Baseline values    *)
(* (short, long, variance, std) are fixed-point, in thousandths (Milli);   *)
(* the EMA weights 1 - exp(-dt/tau) are fixed-point in ten-thousandths     *)
(* (AlphaScale), tabulated for the time steps the model draws.             *)
(***************************************************************************)
EXTENDS Integers, Sequences, FiniteSets, TLC

(* ------------------------------ bounds --------------------------------- *)
MaxIngest == 4

(* --------------------------- program constants ------------------------- *)
ONE_MINUTE == 60000
TEN_MINUTES == 600000
FIVE_MINUTES == 300000
SHORT_EMA_SECONDS == 20
LONG_EMA_SECONDS == 180
BASELINE_READY_SECONDS == 90
SPIKE_REARM_MS == 20000
SPIKE_HISTORY_CAP == 20

Milli == 1000
AlphaScale == 10000
Null == -1
\* Number.NaN: every comparison with it is false, every sum with it is NaN
NaN == -2
Absent == -1

(* ------------------------------ input sets ----------------------------- *)
Authors == {"ann", "bob"}
\* first timestamp of the stream (epoch milliseconds are large and never 0)
T0 == 1000000
\* time steps between consecutive chat events; a negative step is an event
\* delivered out of order
Deltas == {-30000, 0, 20000, 100000, 700000}
Sentiments == {0}

Max(a, b) == IF a >= b THEN a ELSE b
Min(a, b) == IF a <= b THEN a ELSE b
Abs(a) == IF a >= 0 THEN a ELSE -a

\* floor(a * x / s) for s > 0, without forming the product a * x
MulDiv(a, x, s) == a * (x \div s) + (a * (x % s)) \div s

RECURSIVE IsqrtBetween(_, _, _)
\* the largest r in lo..hi with r * r <= n (bisection)
IsqrtBetween(n, lo, hi) ==
  IF lo >= hi THEN lo
  ELSE LET mid == (lo + hi + 1) \div 2
       IN IF mid * mid <= n THEN IsqrtBetween(n, mid, hi) ELSE IsqrtBetween(n, lo, mid - 1)
\* Math.sqrt on fixed-point: floor of the square root
Isqrt(n) == IF n <= 0 THEN 0 ELSE IsqrtBetween(n, 0, Min(n, 46340))

(* ------------------------ MetricsAggregator ---------------------------- *)
createBaselineAccumulator ==
  [short |-> 0, long |-> 0, variance |-> 0, initialized |-> FALSE, elapsed |-> 0]

Metrics == {"messageRate", "uniqueChatters", "newcomers"}

\* field initialisers of the class, and reset()
reset ==
  [messages |-> << >>,
   firstSeen |-> [a \in Authors |-> Absent],
   seenAuthors |-> {},
   lastTrendRate |-> 0,
   events |-> << >>,
   lastEventAt |-> 0,
   baselineStates |-> [m \in Metrics |-> createBaselineAccumulator],
   lastBaselineTimestamp |-> 0]

\* 1 - Math.exp(-dt / SHORT_EMA_SECONDS), dt in milliseconds, in 1/AlphaScale
alphaShort(dtMs) ==
  CASE dtMs = 250 -> 124
    [] dtMs = 20000 -> 6321
    [] dtMs = 100000 -> 9933
    [] dtMs = 700000 -> 10000
    [] dtMs = 40000 -> 8647
    [] dtMs = 860000 -> 10000
    [] dtMs = 880000 -> 10000
    [] dtMs = 900000 -> 10000
    [] dtMs = 920000 -> 10000
    [] dtMs = 940000 -> 10000
    [] dtMs = 2200000 -> 10000

\* 1 - Math.exp(-dt / LONG_EMA_SECONDS), dt in milliseconds, in 1/AlphaScale
alphaLong(dtMs) ==
  CASE dtMs = 250 -> 14
    [] dtMs = 20000 -> 1052
    [] dtMs = 100000 -> 4262
    [] dtMs = 700000 -> 9795
    [] dtMs = 40000 -> 1993
    [] dtMs = 860000 -> 9916
    [] dtMs = 880000 -> 9925
    [] dtMs = 900000 -> 9933
    [] dtMs = 920000 -> 9940
    [] dtMs = 940000 -> 9946
    [] dtMs = 2200000 -> 10000

\* updateBaseline with elapsed overwritten by dt instead of accumulated
updateBaselineNoAccumulate(state, value, dtMs) ==
  IF ~state.initialized \/ dtMs = 0
  THEN [short |-> value * Milli, long |-> value * Milli, variance |-> 0,
        initialized |-> TRUE, elapsed |-> 0]
  ELSE LET aS == alphaShort(dtMs)
           aL == alphaLong(dtMs)
           deltaLong == value * Milli - state.long
           deltaSq == (deltaLong * deltaLong) \div Milli
       IN [short |-> state.short + (aS * (value * Milli - state.short)) \div AlphaScale,
           long |-> state.long + (aL * deltaLong) \div AlphaScale,
           variance |-> Max(0, ((AlphaScale - aL) * state.variance) \div AlphaScale
                                + (aL * deltaSq) \div AlphaScale),
           initialized |-> TRUE,
           elapsed |-> Min(dtMs, LONG_EMA_SECONDS * 12 * 1000)]

\* updateBaseline with elapsed accumulated without its cap
updateBaselineUncapped(state, value, dtMs) ==
  IF ~state.initialized \/ dtMs = 0
  THEN [short |-> value * Milli, long |-> value * Milli, variance |-> 0,
        initialized |-> TRUE, elapsed |-> 0]
  ELSE LET aL == alphaLong(dtMs)
           deltaLong == value * Milli - state.long
           deltaSq == (deltaLong * deltaLong) \div Milli
       IN [short |-> state.short + (alphaShort(dtMs) * (value * Milli - state.short))
                                     \div AlphaScale,
           long |-> state.long + (aL * deltaLong) \div AlphaScale,
           variance |-> Max(0, ((AlphaScale - aL) * state.variance) \div AlphaScale
                                + (aL * deltaSq) \div AlphaScale),
           initialized |-> TRUE,
           elapsed |-> state.elapsed + dtMs]

\* updateBaseline that leaves the long average where it is
updateBaselineFrozenLong(state, value, dtMs) ==
  IF ~state.initialized \/ dtMs = 0
  THEN [short |-> value * Milli, long |-> value * Milli, variance |-> 0,
        initialized |-> TRUE, elapsed |-> 0]
  ELSE [state EXCEPT
          !.short = state.short + MulDiv(alphaShort(dtMs), value * Milli - state.short,
                                         AlphaScale),
          !.elapsed = Min(state.elapsed + dtMs, LONG_EMA_SECONDS * 12 * 1000)]

\* value is an integer metric; state.short/long/variance are in Milli
updateBaseline(state, value, dtMs) ==
  IF ~state.initialized \/ state.short = NaN \/ dtMs = 0
  THEN [short |-> value * Milli, long |-> value * Milli, variance |-> 0,
        initialized |-> TRUE, elapsed |-> 0]
  ELSE IF dtMs = NaN
  THEN [short |-> NaN, long |-> NaN, variance |-> NaN, initialized |-> TRUE,
        elapsed |-> NaN]
  ELSE LET aS == alphaShort(dtMs)
           aL == alphaLong(dtMs)
           deltaLong == value * Milli - state.long
           deltaSq == MulDiv(deltaLong, deltaLong, Milli)
       IN [short |-> state.short + MulDiv(aS, value * Milli - state.short, AlphaScale),
           long |-> state.long + MulDiv(aL, deltaLong, AlphaScale),
           variance |-> Max(0, MulDiv(AlphaScale - aL, state.variance, AlphaScale)
                                + MulDiv(aL, deltaSq, AlphaScale)),
           initialized |-> TRUE,
           elapsed |-> Min(state.elapsed + dtMs, LONG_EMA_SECONDS * 12 * 1000)]

\* Math.sqrt of a variance, both in 1/Milli: to the last digit while
\* variance * Milli fits the integers, to whole units above
sqrtMilli(variance) ==
  IF variance <= 2147483 THEN Isqrt(variance * Milli)
  ELSE Isqrt(variance \div Milli) * Milli

snapshotBaseline(state) ==
  IF ~state.initialized
  THEN [short |-> Null, long |-> Null, std |-> Null, samples |-> 0, ready |-> FALSE]
  ELSE IF state.short = NaN
  THEN [short |-> Null, long |-> Null, std |-> Null, samples |-> 0, ready |-> FALSE]
  ELSE [short |-> state.short,
        long |-> state.long,
        std |-> sqrtMilli(Max(state.variance, 0)),
        samples |-> state.elapsed,
        ready |-> /\ state.elapsed >= BASELINE_READY_SECONDS * 1000
                  /\ Abs(state.long) * 10 > Milli]

\* prune that drops nothing
pruneNothing(agg, now) == agg

\* prune(now): drop messages and firstSeen entries older than ten minutes
prune(agg, now) ==
  LET keep(m) == now - m.timestamp <= TEN_MINUTES
  IN [agg EXCEPT
        !.messages = SelectSeq(agg.messages, keep),
        !.firstSeen = [a \in Authors |->
                         IF /\ agg.firstSeen[a] # Absent
                            /\ agg.firstSeen[a] # NaN
                            /\ now - agg.firstSeen[a] > TEN_MINUTES
                         THEN Absent ELSE agg.firstSeen[a]]]

RECURSIVE SumSentiment(_)
SumSentiment(s) ==
  IF s = << >> THEN 0
  ELSE IF Len(s) = 1 THEN s[1].sentiment
  ELSE LET half == Len(s) \div 2
       IN SumSentiment(SubSeq(s, 1, half)) + SumSentiment(SubSeq(s, half + 1, Len(s)))

NoEvent == [id |-> Null, timestamp |-> Null, ratioPct |-> Null]

\* rateWindow with the boundary excluded (a message exactly one minute old dropped)
rateWindowStrict(messages, now) ==
  LET inMinute(m) == now - m.timestamp < ONE_MINUTE
  IN SelectSeq(messages, inMinute)

\* rateWindow without the record being ingested (only strictly earlier messages)
rateWindowBefore(messages, now) ==
  LET inMinute(m) == now - m.timestamp <= ONE_MINUTE /\ m.timestamp < now
  IN SelectSeq(messages, inMinute)

\* the trailing one-minute window the message rate counts
rateWindow(messages, now) ==
  LET inMinute(m) == now - m.timestamp <= ONE_MINUTE
  IN SelectSeq(messages, inMinute)

\* eventThreshold, times ten: 1.4 when the baseline is ready, 1.8 otherwise
eventThreshold10(baselineReady) == IF baselineReady THEN 14 ELSE 18

\* spikeQualifies with the adaptive threshold left out (any ratio >= 1 qualifies)
spikeQualifiesNoThreshold(messageRate, baselineRate, baselineReady) ==
  /\ baselineRate > 0
  /\ messageRate * Milli >= baselineRate

\* baselineRate > 0 && ratioToBaseline >= eventThreshold (baselineRate in Milli)
spikeQualifies(messageRate, baselineRate, baselineReady) ==
  /\ baselineRate > 0
  /\ messageRate * Milli * 10 >= eventThreshold10(baselineReady) * baselineRate

\* spikeRearmed with an inclusive comparison
spikeRearmedInclusive(timestamp, lastEventAt) == timestamp - lastEventAt >= SPIKE_REARM_MS

\* record.timestamp - this.lastEventAt > 20 * 1000
spikeRearmed(timestamp, lastEventAt) == timestamp - lastEventAt > SPIKE_REARM_MS

\* the history append without its cap
pushEventUncapped(events, event) == <<event>> \o events

\* this.events.unshift(event); this.events = this.events.slice(0, 20)
pushEvent(events, event) ==
  SubSeq(<<event>> \o events, 1, Min(Len(events) + 1, SPIKE_HISTORY_CAP))

\* ingest(record): the new aggregator state and the snapshot it returns
ingest(agg, record) ==
  LET previousRate == agg.lastTrendRate
      pushed == [agg EXCEPT
                   !.messages = Append(agg.messages, record),
                   !.firstSeen[record.authorHash] =
                      IF agg.firstSeen[record.authorHash] = Absent
                      THEN record.timestamp ELSE agg.firstSeen[record.authorHash],
                   !.seenAuthors = agg.seenAuthors \cup {record.authorHash}]
      pruned == prune(pushed, record.timestamp)
      inFive(m) == record.timestamp - m.timestamp <= FIVE_MINUTES
      inTen(m) == record.timestamp - m.timestamp <= TEN_MINUTES
      messageRate == Len(rateWindow(pruned.messages, record.timestamp))
      sentimentWindow == SelectSeq(pruned.messages, inFive)
      averageSentiment ==
        SumSentiment(sentimentWindow) \div Max(Len(sentimentWindow), 1)
      normalizedSentiment == Max(-100, Min(100, averageSentiment))
      chatterWindow == SelectSeq(pruned.messages, inTen)
      uniqueChatters ==
        Cardinality({chatterWindow[i].authorHash : i \in 1..Len(chatterWindow)})
      newcomers ==
        Cardinality({a \in Authors :
                       /\ pruned.firstSeen[a] # Absent
                       /\ pruned.firstSeen[a] # NaN
                       /\ record.timestamp - pruned.firstSeen[a] <= TEN_MINUTES})
      now == record.timestamp
      dtMs == IF agg.lastBaselineTimestamp = 0
              THEN 0
              ELSE IF agg.lastBaselineTimestamp = NaN
              THEN NaN
              ELSE Max(250, now - agg.lastBaselineTimestamp)
      value == [m \in Metrics |->
                  CASE m = "messageRate" -> messageRate
                    [] m = "uniqueChatters" -> uniqueChatters
                    [] m = "newcomers" -> newcomers]
      states == [m \in Metrics |-> updateBaseline(agg.baselineStates[m], value[m], dtMs)]
      baselineSnapshot == [m \in Metrics |-> snapshotBaseline(states[m])]
      baselineRate == IF baselineSnapshot["messageRate"].long # Null
                      THEN baselineSnapshot["messageRate"].long
                      ELSE messageRate * Milli
      baselineReady == baselineSnapshot["messageRate"].ready
      spike == /\ spikeQualifies(messageRate, baselineRate, baselineReady)
               /\ spikeRearmed(record.timestamp, agg.lastEventAt)
      event == IF spike
               THEN [id |-> record.timestamp,
                     timestamp |-> record.timestamp,
                     ratioPct |-> (messageRate * Milli * 100 + baselineRate \div 2)
                                    \div baselineRate]
               ELSE NoEvent
      trendPercent == IF previousRate = 0 THEN 0
                      ELSE ((messageRate - previousRate) * 100) \div previousRate
  IN [agg |-> [pruned EXCEPT
                 !.lastBaselineTimestamp = now,
                 !.baselineStates = states,
                 !.events = IF spike THEN pushEvent(agg.events, event) ELSE agg.events,
                 !.lastEventAt = IF spike THEN record.timestamp ELSE agg.lastEventAt,
                 !.lastTrendRate = messageRate],
      snapshot |-> [messageRate |-> messageRate,
                    trendPercent |-> trendPercent,
                    sentiment |-> normalizedSentiment,
                    uniqueChatters |-> uniqueChatters,
                    newcomers |-> newcomers,
                    event |-> event,
                    baseline |-> baselineSnapshot]]

\* ingest of a record whose timestamp is NaN: every filter that compares with
\* record.timestamp keeps nothing, prune deletes no firstSeen entry
ingestNaN(agg, record) ==
  [agg |->
     [agg EXCEPT
        !.messages = << >>,
        !.firstSeen[record.authorHash] =
           IF agg.firstSeen[record.authorHash] = Absent
           THEN NaN ELSE agg.firstSeen[record.authorHash],
        !.seenAuthors = agg.seenAuthors \cup {record.authorHash},
        !.lastBaselineTimestamp = NaN,
        !.baselineStates =
           [m \in Metrics |->
              updateBaseline(agg.baselineStates[m], 0,
                             IF agg.lastBaselineTimestamp = 0 THEN 0 ELSE NaN)],
        !.lastTrendRate = 0],
   snapshot |->
     [messageRate |-> 0,
      trendPercent |-> IF agg.lastTrendRate = 0 THEN 0 ELSE -100,
      sentiment |-> 0,
      uniqueChatters |-> 0,
      newcomers |-> 0,
      event |-> NoEvent,
      baseline |->
        [m \in Metrics |->
           snapshotBaseline(updateBaseline(agg.baselineStates[m], 0,
                                           IF agg.lastBaselineTimestamp = 0
                                           THEN 0 ELSE NaN))]]]

(* ---------------------- tokens and emotes of a message ----------------- *)
\* A chat line is its words (split at white space) and its emote tags; a tag
\* names an emote id and the word its character range covers.
\* GLOBAL_TWITCH_EMOTES (lower-cased), the members the model's lines use
GLOBAL_TWITCH_EMOTES == {"kappa", "lul"}
\* null emote id
NoId == ""

\* String.prototype.toLowerCase on the words, codes and ids of the model
lowerCased(s) ==
  CASE s = "pogHype" -> "poghype"
    [] s = "POGHYPE" -> "poghype"
    [] s = "Kappa" -> "kappa"
    [] s = "Kappa!" -> "kappa!"
    [] OTHER -> s

\* token.replace(/[^a-zA-Z0-9']/g, "")
stripToken(s) ==
  CASE s = "Kappa!" -> "Kappa"
    [] s = "nice!" -> "nice"
    [] OTHER -> s

\* trimmed.replace(/[^0-9A-Za-z:()<>;\-_]/g, "")
sanitizeEmote(s) ==
  CASE s = "Kappa!" -> "Kappa"
    [] s = "nice!" -> "nice"
    [] OTHER -> s

\* token.length > 2
longerThanTwo(token) == token \notin {"", "gg"}

tokenizeMessage(words) ==
  LET token(i) == lowerCased(stripToken(words[i]))
      keep(t) == longerThanTwo(t) /\ t \notin GLOBAL_TWITCH_EMOTES
  IN SelectSeq([i \in 1..Len(words) |-> token(i)], keep)

\* extractEmotes: one emote per tagged range, its code the text of the range
extractEmotes(words, tags) ==
  [i \in 1..Len(tags) |-> [code |-> words[tags[i].word], id |-> tags[i].id]]

RECURSIVE extractFallbackEmotes(_, _)
\* the words that are global emotes, each once
extractFallbackEmotes(words, candidates) ==
  IF words = << >> THEN << >>
  ELSE LET sanitized == sanitizeEmote(Head(words))
       IN IF /\ lowerCased(sanitized) \in GLOBAL_TWITCH_EMOTES
             /\ sanitized \notin candidates
          THEN <<[code |-> sanitized, id |-> NoId]>>
                 \o extractFallbackEmotes(Tail(words), candidates \cup {sanitized})
          ELSE extractFallbackEmotes(Tail(words), candidates)

RECURSIVE dedupeEmotes(_, _)
\* dedupedEmotes: the first emote of each lower-cased code
dedupeEmotes(emotes, seen) ==
  IF emotes = << >> THEN << >>
  ELSE IF lowerCased(Head(emotes).code) \in seen
       THEN dedupeEmotes(Tail(emotes), seen)
       ELSE <<Head(emotes)>>
              \o dedupeEmotes(Tail(emotes), seen \cup {lowerCased(Head(emotes).code)})

\* allEmotes of the handler: the tagged emotes, then the fallback ones
allEmotes(words, tags) ==
  dedupeEmotes(extractEmotes(words, tags) \o extractFallbackEmotes(words, {}), {})

(* ------------------------ token / emote ranking ------------------------ *)
\* messageEmoteSet
messageEmoteSet(message) ==
  {lowerCased(message.emotes[i].code) : i \in 1..Len(message.emotes)}

\* the token occurrences the ranking counts: also those that are emote codes
\* of their own message
countedAll(token, message) == token \notin GLOBAL_TWITCH_EMOTES

\* the token occurrences the ranking counts
counted(token, message) ==
  ~(token \in GLOBAL_TWITCH_EMOTES \/ token \in messageEmoteSet(message))

RECURSIVE countedTokens(_)
\* the counted tokens of the window, in the order forEach visits them
countedTokens(messages) ==
  IF messages = << >> THEN << >>
  ELSE LET keep(t) == counted(t, Head(messages))
       IN SelectSeq(Head(messages).tokens, keep) \o countedTokens(Tail(messages))

RECURSIVE windowEmotes(_)
windowEmotes(messages) ==
  IF messages = << >> THEN << >>
  ELSE Head(messages).emotes \o windowEmotes(Tail(messages))

\* Map.set(key, (Map.get(key) ?? 0) + 1) on a Map kept in insertion order
bump(entries, entry) ==
  IF \E i \in 1..Len(entries) : entries[i].key = entry.key
  THEN [i \in 1..Len(entries) |->
          IF entries[i].key = entry.key
          THEN [entries[i] EXCEPT !.count = entries[i].count + 1]
          ELSE entries[i]]
  ELSE Append(entries, entry)

RECURSIVE tokenCounts(_, _)
tokenCounts(tokens, entries) ==
  IF tokens = << >> THEN entries
  ELSE tokenCounts(Tail(tokens),
                   bump(entries, [key |-> Head(tokens), name |-> Head(tokens), count |-> 1]))

RECURSIVE emoteCounts(_, _)
\* keyed by the lower-cased id, or by the lower-cased code when the id is null
emoteCounts(emotes, entries) ==
  IF emotes = << >> THEN entries
  ELSE LET emote == Head(emotes)
           displayCode == IF emote.code # "" THEN emote.code ELSE emote.id
       IN IF displayCode = "" THEN emoteCounts(Tail(emotes), entries)
          ELSE emoteCounts(Tail(emotes),
                           bump(entries,
                                [key |-> lowerCased(IF emote.id # NoId THEN emote.id
                                                    ELSE displayCode),
                                 code |-> displayCode, id |-> emote.id, count |-> 1]))

RECURSIVE InsertBeforeEquals(_, _)
\* InsertByCount that puts an entry in front of the entries of equal count
InsertBeforeEquals(sorted, x) ==
  IF sorted = << >> THEN <<x>>
  ELSE IF Head(sorted).count > x.count
       THEN <<Head(sorted)>> \o InsertBeforeEquals(Tail(sorted), x)
       ELSE <<x>> \o sorted

RECURSIVE InsertByCount(_, _)
\* one step of the stable sort((a, b) => b.count - a.count)
InsertByCount(sorted, x) ==
  IF sorted = << >> THEN <<x>>
  ELSE IF Head(sorted).count >= x.count
       THEN <<Head(sorted)>> \o InsertByCount(Tail(sorted), x)
       ELSE <<x>> \o sorted

RECURSIVE sortByCount(_, _)
sortByCount(entries, sorted) ==
  IF entries = << >> THEN sorted
  ELSE sortByCount(Tail(entries), InsertByCount(sorted, Head(entries)))

\* .slice(0, 6)
slice6(entries) == SubSeq(entries, 1, Min(Len(entries), 6))

topEmotes(messages) ==
  LET top == slice6(sortByCount(emoteCounts(windowEmotes(messages), << >>), << >>))
  IN [i \in 1..Len(top) |-> [code |-> top[i].code, id |-> top[i].id, count |-> top[i].count]]

emoteKeySet(top) ==
  {lowerCased(top[i].code) : i \in 1..Len(top)}
    \cup {lowerCased(top[i].id) : i \in {j \in 1..Len(top) : top[j].id # NoId}}

topTokens(messages) ==
  LET keys == emoteKeySet(topEmotes(messages))
      keep(entry) == /\ entry.name \notin GLOBAL_TWITCH_EMOTES
                     /\ lowerCased(entry.name) \notin keys
      top == slice6(sortByCount(SelectSeq(tokenCounts(countedTokens(messages), << >>), keep),
                                << >>))
  IN [i \in 1..Len(top) |-> [name |-> top[i].name, count |-> top[i].count]]

\* ingest(record) with the token and emote rankings of its snapshot
ingestRanked(agg, record) ==
  LET r == ingest(agg, record)
  IN [agg |-> r.agg,
      snapshot |-> r.snapshot @@ [topTokens |-> topTokens(r.agg.messages),
                                  topEmotes |-> topEmotes(r.agg.messages)]]

NoSnapshot ==
  [messageRate |-> 0, trendPercent |-> 0, sentiment |-> 0, uniqueChatters |-> 0,
   newcomers |-> 0, event |-> NoEvent,
   baseline |-> [m \in Metrics |-> snapshotBaseline(createBaselineAccumulator)]]

(* ----------------- /api/coach-summary: alert arbitration --------------- *)
BASE_ALERT_RESPONSE_LIMIT == 5
MAX_ALERT_RESPONSE_LIMIT == 8
DEFAULT_ALERT_COOLDOWN_MS == 30000
HIGH_PRIORITY_COOLDOWN_MS == 15000
NEWCOMER_ALERT_COOLDOWN_MS == 180000
TOXIC_ALERT_WINDOW_MS == 30000
NEGATIVE_ALERT_WINDOW_MS == 20000
FRESH_CHATTER_WINDOW_MS == 300000
RECENT_WINDOW_COUNT == 12
AUTHOR_MEMORY_MS == 21600000

Priorities == {"high", "medium", "low"}
priorityWeight(p) ==
  CASE p = "high" -> 3 [] p = "medium" -> 2 [] p = "low" -> 1 [] OTHER -> 0

POSITIVE_TONES == {"hype", "supportive", "humor", "constructive"}
HYPE_TONES == {"hype", "supportive"}
HUMOR_TONES == {"humor"}
NEGATIVE_TONES == {"critical", "sarcastic", "toxic"}
TOXIC_TONES == {"toxic"}
QUESTION_TONES == {"question"}
SPAM_TONES == {"spam"}
CONSTRUCTIVE_TONES == {"constructive"}

clamp(value, min, max) == Min(Max(value, min), max)

\* String.prototype.toLowerCase on author names (and trim: the model's names
\* carry no surrounding blanks)
toLowerCase(name) == IF name = "Ann" THEN "ann" ELSE name
normalizeAuthor(author) == toLowerCase(author)

\* A cooldown key.  The code builds keys as strings: a detector name, for some
\* detectors followed by an author ("new-chatter:ann") and for the keys that
\* default to the alert id by a timestamp ("chat-hype-1700000000000").
Key(name, author, at) == [name |-> name, author |-> author, at |-> at]

\* alertCooldowns.get(key): the entry, or NoEntry
NoEntry == [timestamp |-> Null, priority |-> "none"]
cooldownGet(cooldowns, key) ==
  IF key \in DOMAIN cooldowns THEN cooldowns[key] ELSE NoEntry
\* alertCooldowns.set(key, {timestamp, priority})
cooldownSet(cooldowns, key, timestamp, priority) ==
  [k \in DOMAIN cooldowns \cup {key} |->
     IF k = key THEN [timestamp |-> timestamp, priority |-> priority] ELSE cooldowns[k]]

\* the cooldown test with the priority escalation left out
cooldownBlocksNoEscalation(existing, timestamp, priority, cooldownMs) ==
  /\ existing # NoEntry
  /\ timestamp - existing.timestamp < cooldownMs

\* the cooldown test with the comparison of the elapsed time inverted
cooldownBlocksInverted(existing, timestamp, priority, cooldownMs) ==
  /\ existing # NoEntry
  /\ timestamp - existing.timestamp >= cooldownMs
  /\ priorityWeight(priority) <= priorityWeight(existing.priority)

\* the cooldown test that lets a candidate of equal priority through
cooldownBlocksLowerOnly(existing, timestamp, priority, cooldownMs) ==
  /\ existing # NoEntry
  /\ timestamp - existing.timestamp < cooldownMs
  /\ priorityWeight(priority) < priorityWeight(existing.priority)

\* shouldEmitAlert, the test: an entry exists, elapsed < cooldownMs and
\* nextWeight <= existingWeight
cooldownBlocks(existing, timestamp, priority, cooldownMs) ==
  /\ existing # NoEntry
  /\ timestamp - existing.timestamp < cooldownMs
  /\ priorityWeight(priority) <= priorityWeight(existing.priority)

\* shouldEmitAlert: [emit, cooldowns] (the map is written only when it emits)
shouldEmitAlert(cooldowns, key, timestamp, priority, cooldownMs) ==
  IF cooldownBlocks(cooldownGet(cooldowns, key), timestamp, priority, cooldownMs)
  THEN [emit |-> FALSE, cooldowns |-> cooldowns]
  ELSE [emit |-> TRUE, cooldowns |-> cooldownSet(cooldowns, key, timestamp, priority)]

\* An alert message: a fixed text, the author names and the numbers spliced in.
\* title is empty except on the AI card, whose text is `${title}: ${message}`.
Message(text, names, nums) == [title |-> "", text |-> text, names |-> names, nums |-> nums]

\* pushAlert on the evaluation state st = [cooldowns, alerts, candidates]:
\* alerts is heuristicAlerts, candidates records every call (for the claims).
\* The alert id is `${id}-${updatedAt}`: the pair of base and updatedAt.
pushAlert(st, id, message, tone, priority, updatedAt, key, cooldownMs) ==
  LET r == shouldEmitAlert(st.cooldowns, key, updatedAt, priority, cooldownMs)
  IN [st EXCEPT
        !.cooldowns = r.cooldowns,
        !.alerts = IF r.emit
                   THEN Append(@, [base |-> id, message |-> message, tone |-> tone,
                                   priority |-> priority, updatedAt |-> updatedAt])
                   ELSE @,
        !.candidates = Append(@, [key |-> key, timestamp |-> updatedAt,
                                  priority |-> priority, cooldownMs |-> cooldownMs,
                                  before |-> st.cooldowns, after |-> r.cooldowns,
                                  emitted |-> r.emit])]

(* ------------------- /api/coach-summary: derived values ---------------- *)
\* Fixed-point units of the route's floating-point values: z-scores, ratios and
\* intensities in thousandths (Milli), percentages in tenths of a percent
\* (Deci), sentiment in hundredths.
Deci == 10
Infinity == 2147483647
NullNum == -2147483647
OrZero(x) == IF x = NullNum THEN 0 ELSE x
DivFloor(a, b) == a \div b
DivCeil(a, b) == -((-a) \div b)

\* Math.log1p(n) in Milli, for the audience sizes the model draws
Log1pMilli(n) ==
  CASE n = 0 -> 0 [] n = 1 -> 693 [] n = 2 -> 1099 [] n = 3 -> 1386 [] n = 4 -> 1609
    [] n = 5 -> 1792 [] n = 6 -> 1946 [] n = 7 -> 2079 [] n = 8 -> 2197 [] n = 9 -> 2303
    [] n = 10 -> 2398 [] n = 11 -> 2485 [] n = 195 -> 5278

RECURSIVE FloorLog2(_)
\* Math.floor(Math.log2(n)) for n >= 1
FloorLog2(n) == IF n <= 1 THEN 0 ELSE 1 + FloorLog2(n \div 2)

\* in Milli
surgeZThreshold(uniqueChatters, baselineReady) ==
  (IF baselineReady THEN 1200 ELSE 1600)
    + (Log1pMilli(Max(uniqueChatters - 5, 0)) * 250) \div 1000
\* in Deci percent
surgePercentThreshold(uniqueChatters, baselineReady) ==
  (IF baselineReady THEN 300 ELSE 450)
    + (Log1pMilli(Max(uniqueChatters - 5, 0)) * 8) \div 100
strongSurgeZThreshold(uniqueChatters, baselineReady) ==
  surgeZThreshold(uniqueChatters, baselineReady) + 800
minUniqueForSurge(uniqueChatters, baselineReady) == IF baselineReady THEN 3 ELSE 5
\* in Milli
newcomerRatioThreshold(uniqueChatters, baselineReady) ==
  clamp((IF baselineReady THEN 120 ELSE 220)
          + (Log1pMilli(Max(uniqueChatters - 5, 0)) * 15) \div 1000, 120, 350)

\* computeDynamicCooldown without its floor of 30% of the base
computeDynamicCooldownNoFloor(baseMs, intensity) ==
  IF intensity = NullNum \/ intensity <= 0
  THEN baseMs
  ELSE (baseMs * 1000) \div (1000 + clamp(intensity, 500, 4000))

\* intensity in Milli, or NullNum
computeDynamicCooldown(baseMs, intensity) ==
  IF intensity = NullNum \/ intensity <= 0
  THEN baseMs
  ELSE LET normalized == clamp(intensity, 500, 4000)
       IN Max((baseMs * 1000) \div (1000 + normalized), (baseMs * 3) \div 10)

\* inferToneFromText on the texts the model draws (the first regex that matches)
inferToneFromText(text) ==
  CASE text = "" -> "unknown"
    [] text = "free followers at bestsite.com" -> "spam"
    [] text = "!uptime" -> "system"
    [] text = "you are trash" -> "toxic"
    [] text = "this is boring" -> "critical"
    [] text = "pog" -> "hype"
    [] text = "gg" -> "supportive"
    [] text = "lol" -> "humor"
    [] text = "maybe try again" -> "constructive"
    [] text = "when is the next stream?" -> "question"
    [] text = "ok" -> "informational"
    [] OTHER -> "neutral"

\* resolveTone: the provided tone, else the tone inferred from the text
resolveTone(message) ==
  [author |-> message.author, text |-> message.text, timestamp |-> message.timestamp,
   tone |-> IF message.tone # "" THEN message.tone ELSE inferToneFromText(message.text)]

RECURSIVE InsertByTimestamp(_, _)
\* insert m behind every element whose timestamp is <= m.timestamp
InsertByTimestamp(sorted, m) ==
  IF sorted = << >> THEN <<m>>
  ELSE IF sorted[Len(sorted)].timestamp <= m.timestamp
       THEN Append(sorted, m)
       ELSE Append(InsertByTimestamp(SubSeq(sorted, 1, Len(sorted) - 1), m),
                   sorted[Len(sorted)])

RECURSIVE SortByTimestamp(_)
\* [...payload.messages].sort((a, b) => a.timestamp - b.timestamp): stable, ascending
SortByTimestamp(msgs) ==
  IF msgs = << >> THEN << >>
  ELSE InsertByTimestamp(SortByTimestamp(SubSeq(msgs, 1, Len(msgs) - 1)), msgs[Len(msgs)])

\* Array.prototype.slice(-n)
LastN(seq, n) == SubSeq(seq, Max(1, Len(seq) - n + 1), Len(seq))

CountTone(msgs, tones) == Cardinality({i \in 1..Len(msgs) : msgs[i].tone \in tones})

NoMessage == [author |-> "", text |-> "", timestamp |-> Null, tone |-> "none"]
\* latestByTone: the last message of the batch whose tone is in tones
latestByTone(msgs, tones) ==
  LET hits == {i \in 1..Len(msgs) : msgs[i].tone \in tones}
  IN IF hits = {} THEN NoMessage
     ELSE msgs[CHOOSE i \in hits : \A j \in hits : j <= i]

RECURSIVE FirstOccurrences(_, _)
\* the authors of the batch in order of first appearance (compared lower-cased)
FirstOccurrences(msgs, seen) ==
  IF msgs = << >> THEN << >>
  ELSE IF toLowerCase(Head(msgs).author) \in seen
       THEN FirstOccurrences(Tail(msgs), seen)
       ELSE <<Head(msgs).author>>
              \o FirstOccurrences(Tail(msgs), seen \cup {toLowerCase(Head(msgs).author)})

\* one baseline of the payload: ready, long and std as the route reads them
\* (long and std in Milli, Null when absent); z in Milli, percent in Deci
BaselineView(b, value) ==
  LET ready == b.ready /\ b.long # Null
      long == IF ready THEN b.long ELSE NullNum
      std == IF ready /\ b.std # Null THEN Max(b.std, 250) ELSE NullNum
      hasZ == ready /\ std # NullNum
      hasPct == ready /\ long # NullNum /\ long # 0 /\ Abs(long) * 10 > Milli
  IN [ready |-> ready,
      long |-> long,
      std |-> std,
      z |-> IF hasZ THEN DivFloor((value * Milli - long) * Milli, std) ELSE NullNum,
      zCeil |-> IF hasZ THEN DivCeil((value * Milli - long) * Milli, std) ELSE NullNum,
      deltaPercent |-> IF hasPct
                       THEN DivFloor((value * Milli - long) * 100 * Deci, Abs(long))
                       ELSE NullNum,
      deltaPercentCeil |-> IF hasPct
                           THEN DivCeil((value * Milli - long) * 100 * Deci, Abs(long))
                           ELSE NullNum]

(* --------------------- /api/coach-summary: detectors ------------------- *)
\* sessionAuthorMemory: a map from the normalized author to the last timestamp
pruneAuthorMemory(memory, now) ==
  [a \in {x \in DOMAIN memory : now - memory[x] <= AUTHOR_MEMORY_MS} |-> memory[a]]
hasSeenAuthor(memory, author) == normalizeAuthor(author) \in DOMAIN memory
rememberAuthor(memory, author, timestamp) ==
  [a \in DOMAIN memory \cup {normalizeAuthor(author)} |->
     IF a = normalizeAuthor(author) THEN timestamp ELSE memory[a]]

RECURSIVE rememberAll(_, _)
\* messages.forEach((message) => rememberAuthor(message.author, message.timestamp))
rememberAll(memory, msgs) ==
  IF msgs = << >> THEN memory
  ELSE rememberAll(rememberAuthor(memory, Head(msgs).author, Head(msgs).timestamp), Tail(msgs))

RECURSIVE LatestPerAuthor(_, _)
\* latestMessageByAuthor: walking the batch backwards, the first message met
\* of each (lower-cased) author, in the order met
LatestPerAuthor(msgs, seen) ==
  IF msgs = << >> THEN << >>
  ELSE LET m == msgs[Len(msgs)]
           rest == SubSeq(msgs, 1, Len(msgs) - 1)
       IN IF toLowerCase(m.author) \in seen
          THEN LatestPerAuthor(rest, seen)
          ELSE <<m>> \o LatestPerAuthor(rest, seen \cup {toLowerCase(m.author)})

RECURSIVE InsertDescending(_, _)
InsertDescending(sorted, m) ==
  IF sorted = << >> THEN <<m>>
  ELSE IF sorted[Len(sorted)].timestamp >= m.timestamp
       THEN Append(sorted, m)
       ELSE Append(InsertDescending(SubSeq(sorted, 1, Len(sorted) - 1), m),
                   sorted[Len(sorted)])

RECURSIVE SortDescending(_)
\* [...freshNewChatters].sort((a, b) => b.timestamp - a.timestamp): stable
SortDescending(msgs) ==
  IF msgs = << >> THEN << >>
  ELSE InsertDescending(SortDescending(SubSeq(msgs, 1, Len(msgs) - 1)), msgs[Len(msgs)])

AuthorsOf(msgs) == [i \in 1..Len(msgs) |-> msgs[i].author]

\* Everything the detectors read, derived from the payload as POST derives it.
\* payload = [messages, metrics, startedAt, baseline]
Context(payload) ==
  LET classifiedMessages == [i \in 1..Len(payload.messages) |->
                               resolveTone(SortByTimestamp(payload.messages)[i])]
      totalMessages == Len(classifiedMessages)
      recentWindow == LastN(classifiedMessages, RECENT_WINDOW_COUNT)
      latestMessage == classifiedMessages[totalMessages]
      latestTimestamp == latestMessage.timestamp
      metrics == payload.metrics
      mb == BaselineView(payload.baseline["messageRate"], metrics.messageRate)
      ub == BaselineView(payload.baseline["uniqueChatters"], metrics.uniqueChatters)
      nb == BaselineView(payload.baseline["newcomers"], metrics.newcomers)
      positiveCount == CountTone(classifiedMessages, POSITIVE_TONES)
      negativeCount == CountTone(classifiedMessages, NEGATIVE_TONES)
      toxicCount == CountTone(classifiedMessages, TOXIC_TONES)
      recentNegative == CountTone(recentWindow, NEGATIVE_TONES)
      hasToxic == toxicCount > 0
      hasCritical == negativeCount - toxicCount > 0
      latestTone == latestMessage.tone
      sessionStart == IF payload.startedAt # Null /\ payload.startedAt # 0
                      THEN payload.startedAt ELSE Null
      latestToxic == latestByTone(classifiedMessages, TOXIC_TONES)
      latestNegative == latestByTone(classifiedMessages, NEGATIVE_TONES)
      newcomerRatio == (metrics.newcomers * Milli) \div Max(metrics.uniqueChatters, 1)
      newcomerRatioThresholdValue == newcomerRatioThreshold(metrics.uniqueChatters, nb.ready)
  IN [classifiedMessages |-> classifiedMessages,
      totalMessages |-> totalMessages,
      latestTimestamp |-> latestTimestamp,
      latestTone |-> latestTone,
      messageRateValue |-> metrics.messageRate,
      uniqueChattersValue |-> metrics.uniqueChatters,
      newcomersValue |-> metrics.newcomers,
      trendValue |-> metrics.trend,
      sentiment |-> metrics.sentiment,
      mb |-> mb, ub |-> ub, nb |-> nb,
      positiveCount |-> positiveCount,
      negativeCount |-> negativeCount,
      toxicCount |-> toxicCount,
      hypeCount |-> CountTone(classifiedMessages, HYPE_TONES),
      humorCount |-> CountTone(classifiedMessages, HUMOR_TONES),
      constructiveCount |-> CountTone(classifiedMessages, CONSTRUCTIVE_TONES),
      supportiveCount |-> CountTone(classifiedMessages, {"supportive"}),
      spamCount |-> CountTone(classifiedMessages, SPAM_TONES),
      recentNegative |-> recentNegative,
      recentToxic |-> CountTone(recentWindow, TOXIC_TONES),
      recentPositive |-> CountTone(recentWindow, POSITIVE_TONES),
      latestToxic |-> latestToxic,
      latestNegative |-> latestNegative,
      latestToxicAge |-> IF latestToxic # NoMessage
                         THEN latestTimestamp - latestToxic.timestamp ELSE Infinity,
      latestNegativeAge |-> IF latestNegative # NoMessage
                            THEN latestTimestamp - latestNegative.timestamp ELSE Infinity,
      hasToxic |-> hasToxic,
      hasCritical |-> hasCritical,
      \* negativeRatio >= 0.05, >= 0.15 (negativeCount / totalMessages)
      negativeRatioGe5 |-> negativeCount * 100 >= 5 * totalMessages,
      negativeRatioGe15 |-> negativeCount * 100 >= 15 * totalMessages,
      positiveMoodDominant |->
        /\ metrics.sentiment >= 20
        \* positiveRatio >= Math.max(0.5, negativeRatio * 1.5)
        /\ 2 * positiveCount >= totalMessages
        /\ 2 * positiveCount >= 3 * negativeCount
        /\ recentNegative = 0
        /\ ~hasToxic
        /\ ~hasCritical,
      allowPositiveLift |->
        \/ latestTone \in POSITIVE_TONES
        \/ /\ positiveCount > 0
           /\ ~hasToxic
           /\ ~hasCritical
           /\ recentNegative = 0
           /\ latestTone \notin NEGATIVE_TONES,
      authorsSeen |-> {toLowerCase(classifiedMessages[i].author) : i \in 1..totalMessages},
      newChatters |-> FirstOccurrences(classifiedMessages, {}),
      \* sessionAgeSeconds, in milliseconds
      sessionAge |-> IF sessionStart # Null
                     THEN Max(0, latestTimestamp - sessionStart) ELSE Infinity,
      newcomerRatio |-> newcomerRatio,
      newcomerRatioThresholdValue |-> newcomerRatioThresholdValue,
      \* Math.max(newcomersZ ?? 0, newcomerRatio / Math.max(threshold, 0.01) - 1)
      newcomerIntensity |->
        Max(OrZero(nb.z),
            (newcomerRatio * Milli) \div Max(newcomerRatioThresholdValue, 10) - Milli)]

\* pushAlert with the default options: the cooldown key is the id, the
\* cooldown DEFAULT_ALERT_COOLDOWN_MS
pushAlertDefault(st, id, message, tone, priority, updatedAt) ==
  pushAlert(st, id, message, tone, priority, updatedAt, id, DEFAULT_ALERT_COOLDOWN_MS)

\* the evaluation state with the author memory replaced
WithMemory(st, memory) == [st EXCEPT !.memory = memory]

\* "New chatter detection": three exclusive branches
newcomerDetector(c, st) ==
  LET fresh(m) == /\ ~hasSeenAuthor(st.memory, m.author)
                  /\ c.latestTimestamp - m.timestamp <= FRESH_CHATTER_WINDOW_MS
      freshNewChatters == SelectSeq(LatestPerAuthor(c.classifiedMessages, {}), fresh)
      sortedFresh == SortDescending(freshNewChatters)
      totalFresh == Len(sortedFresh)
      anchor == sortedFresh[1]
      anchorLower == toLowerCase(anchor.author)
      fellowNames == AuthorsOf(SubSeq(sortedFresh, 2, Min(totalFresh, 6)))
      extraCount == Max(0, totalFresh - 1 - Len(fellowNames))
      cooldownMs == computeDynamicCooldown(NEWCOMER_ALERT_COOLDOWN_MS, c.newcomerIntensity)
  IN IF totalFresh > 0 /\ c.uniqueChattersValue >= 2
     THEN WithMemory(
            pushAlert(st, Key("new-chatter-batch", anchorLower, anchor.timestamp),
                      IF Len(fellowNames) > 0
                      THEN Message("Say hi to _! Also new: _.",
                                   <<anchor.author>> \o fellowNames, <<extraCount>>)
                      ELSE Message("Say hi to _! They just sent their first message.",
                                   <<anchor.author>>, << >>),
                      "positive",
                      IF totalFresh >= 6 THEN "high"
                      ELSE IF totalFresh >= 3 THEN "medium" ELSE "low",
                      anchor.timestamp, Key("new-chatter", anchorLower, 0), cooldownMs),
            rememberAll(st.memory, sortedFresh))
     ELSE IF /\ c.uniqueChattersValue >= 3
             /\ IF c.nb.ready
                THEN OrZero(c.nb.z) >= 1200 \/ c.newcomerRatio >= c.newcomerRatioThresholdValue
                ELSE c.newcomerRatio >= 300 \/ c.newcomersValue >= 5
     THEN pushAlert(st, Key("new-chatters", "", 0),
                    Message("New chatters arriving: _",
                            SubSeq(c.newChatters, 1, Min(3, Len(c.newChatters))), << >>),
                    "neutral",
                    IF c.nb.ready
                    THEN IF OrZero(c.nb.z) >= 2000 \/ OrZero(c.nb.deltaPercent) >= 120 * Deci
                         THEN "high" ELSE "medium"
                    ELSE IF c.newcomersValue >= 10 THEN "high" ELSE "medium",
                    c.latestTimestamp, Key("new-chatter", "batch", 0), cooldownMs)
     ELSE IF Len(c.newChatters) > 0 /\ c.uniqueChattersValue >= 2
     THEN WithMemory(
            pushAlert(st, Key("new-chatter-rolling", toLowerCase(c.newChatters[1]),
                              c.latestTimestamp),
                      Message("_ just hopped into chat for the first time.",
                              <<c.newChatters[1]>>, << >>),
                      "positive", "low", c.latestTimestamp,
                      Key("new-chatter", toLowerCase(c.newChatters[1]), 0), cooldownMs),
            rememberAuthor(st.memory, c.newChatters[1], c.latestTimestamp))
     ELSE st

\* returning-audience notice
returningDetector(c, st) ==
  LET returningBounce ==
        /\ Cardinality(c.authorsSeen) >= 15
        /\ IF c.ub.ready
           THEN OrZero(c.ub.deltaPercent) >= -15 * Deci
           ELSE c.uniqueChattersValue - Cardinality(c.authorsSeen) >= 5
  IN IF returningBounce
     THEN pushAlert(st, Key("returning-chatters", "", 0),
                    Message("Lots of familiar names are active-shout them out.", << >>, << >>),
                    "neutral", "low", c.latestTimestamp, Key("returning-chatters", "", 0),
                    \* Math.abs(uniqueDeltaPercent ?? 0) / 25
                    computeDynamicCooldown(90000,
                                           (Abs(OrZero(c.ub.deltaPercent)) * Milli)
                                              \div (25 * Deci)))
     ELSE st

\* audience summary for very large audiences
summaryDetector(c, st) ==
  IF c.uniqueChattersValue >= 200
  THEN pushAlert(st, Key("audience-summary", "", 0),
                 Message("Pulse summary: _",
                         << >>,
                         <<IF c.mb.ready /\ c.mb.deltaPercent # NullNum
                           THEN (c.mb.deltaPercent + 5) \div Deci ELSE NullNum,
                           c.newcomersValue, c.sentiment>>),
                 "neutral", "medium", c.latestTimestamp, Key("audience-summary", "", 0),
                 computeDynamicCooldown(45000, Max(OrZero(c.mb.z), c.newcomerRatio)))
  ELSE st

\* velocity surge: negative, positive or neutral-monitor
surgeThresholdMet(c) ==
  /\ c.sessionAge >= 30000
  /\ c.uniqueChattersValue >= minUniqueForSurge(c.uniqueChattersValue, c.mb.ready)
  /\ IF c.mb.ready
     THEN \/ OrZero(c.mb.z) >= surgeZThreshold(c.uniqueChattersValue, c.mb.ready)
          \/ OrZero(c.mb.deltaPercent)
               >= surgePercentThreshold(c.uniqueChattersValue, c.mb.ready)
     ELSE c.messageRateValue >= 20 \/ c.trendValue >= 15

\* surgeIsNegative that looks at toxic messages only
surgeIsNegativeToxicOnly(c) == c.hasToxic

surgeIsNegative(c) ==
  c.hasToxic \/ c.hasCritical \/ c.recentNegative >= 1 \/ c.latestTone \in NEGATIVE_TONES

surgeDetector(c, st) ==
  LET dynamicSurgePercent == surgePercentThreshold(c.uniqueChattersValue, c.mb.ready)
      strongSurge ==
        IF c.mb.ready
        THEN \/ OrZero(c.mb.z) >= strongSurgeZThreshold(c.uniqueChattersValue, c.mb.ready)
             \/ OrZero(c.mb.deltaPercent) >= dynamicSurgePercent * 2
        ELSE c.messageRateValue >= 60 \/ c.trendValue >= 35
      surgeIntensity ==
        Max(OrZero(c.mb.z),
            (OrZero(c.mb.deltaPercent) * Milli) \div Max(dynamicSurgePercent, Deci))
      surgeCooldown == IF strongSurge THEN HIGH_PRIORITY_COOLDOWN_MS
                       ELSE DEFAULT_ALERT_COOLDOWN_MS
  IN IF ~surgeThresholdMet(c) THEN st
     ELSE IF surgeIsNegative(c)
     THEN pushAlert(st, Key("velocity-surge-negative", "", 0),
                    Message("Chat is spiking but the mood is sour-acknowledge the frustration.",
                            << >>, << >>),
                    "negative",
                    IF strongSurge \/ c.recentNegative >= 4 THEN "high" ELSE "medium",
                    c.latestTimestamp, Key("velocity-surge-negative", "", 0),
                    computeDynamicCooldown(surgeCooldown, surgeIntensity))
     ELSE IF c.allowPositiveLift
     THEN pushAlert(st, Key("velocity-surge-positive", "", 0),
                    Message("Chat is surging-lean into the moment!", << >>, << >>),
                    "positive", IF strongSurge THEN "high" ELSE "medium",
                    c.latestTimestamp, Key("velocity-surge-positive", "", 0),
                    computeDynamicCooldown(surgeCooldown, surgeIntensity))
     ELSE pushAlert(st, Key("velocity-surge-monitor", "", 0),
                    Message("Chat is heating up-watch the tone before diving in.",
                            << >>, << >>),
                    "neutral", "medium", c.latestTimestamp,
                    Key("velocity-surge-monitor", "", 0),
                    computeDynamicCooldown(DEFAULT_ALERT_COOLDOWN_MS, surgeIntensity \div 2))

\* gate of the positive-tone and constructive detectors
positiveEligible(c) ==
  /\ c.sessionAge >= 30000
  /\ c.uniqueChattersValue >= 3
  /\ c.uniqueChattersValue < 200
  /\ IF c.mb.ready THEN OrZero(c.mb.z) >= 800 ELSE c.messageRateValue >= 10

\* hype, humor and support spikes: the cooldown key defaults to the id, which
\* carries the timestamp of the latest message of that tone
positiveDetectors(c, st) ==
  LET ok == positiveEligible(c) /\ c.allowPositiveLift
      latestHype == latestByTone(c.classifiedMessages, HYPE_TONES)
      latestHumor == latestByTone(c.classifiedMessages, HUMOR_TONES)
      latestSupportive == latestByTone(c.classifiedMessages, {"supportive"})
      s1 == IF ok /\ c.hypeCount >= 1 /\ latestHype # NoMessage
            THEN pushAlertDefault(st, Key("chat-hype", "", latestHype.timestamp),
                                  Message("Chat is hyped-amplify the momentum!", << >>, << >>),
                                  "positive", IF c.hypeCount >= 3 THEN "high" ELSE "medium",
                                  latestHype.timestamp)
            ELSE st
      s2 == IF ok /\ c.humorCount >= 1 /\ latestHumor # NoMessage
            THEN pushAlertDefault(s1, Key("chat-laughter", "", latestHumor.timestamp),
                                  Message("Chat is laughing-lean into the bit!", << >>, << >>),
                                  "positive", IF c.humorCount >= 3 THEN "high" ELSE "medium",
                                  latestHumor.timestamp)
            ELSE s1
      s3 == IF ok /\ c.supportiveCount >= 1 /\ latestSupportive # NoMessage
            THEN pushAlertDefault(s2, Key("chat-support", "", latestSupportive.timestamp),
                                  Message("Viewers are showing love-acknowledge them!",
                                          << >>, << >>),
                                  "positive", IF c.supportiveCount >= 3 THEN "medium" ELSE "low",
                                  latestSupportive.timestamp)
            ELSE s2
  IN s3

constructiveDetector(c, st) ==
  LET latestConstructive == latestByTone(c.classifiedMessages, CONSTRUCTIVE_TONES)
  IN IF /\ positiveEligible(c)
        /\ c.constructiveCount >= 1
        /\ (~c.hasToxic \/ c.constructiveCount > c.toxicCount)
     THEN pushAlertDefault(st, Key("constructive-feedback", "", 0),
                           Message("Chat is offering suggestions-acknowledge the feedback.",
                                   << >>, << >>),
                           "neutral", IF c.constructiveCount >= 3 THEN "medium" ELSE "low",
                           IF latestConstructive # NoMessage
                           THEN latestConstructive.timestamp ELSE c.latestTimestamp)
     ELSE st

spamDetector(c, st) ==
  IF c.spamCount >= 1
  THEN pushAlertDefault(st, Key("spam-warning", "", 0),
                        IF c.spamCount >= 3
                        THEN Message("Spam surge-moderators should clean chat.", << >>, << >>)
                        ELSE Message("Spam is popping up-keep an eye on chat.", << >>, << >>),
                        "negative", IF c.spamCount >= 3 THEN "high" ELSE "medium",
                        c.latestTimestamp)
  ELSE st

\* the if / else-if chain of tone dip (toxic), tone dip (negative) and
\* momentum drop
toneAndMomentumDetector(c, st) ==
  LET severe == c.toxicCount >= 2 \/ c.recentToxic >= 2 \/ c.sentiment <= -20
      toneDipPriority ==
        IF c.sentiment <= -20 \/ c.negativeRatioGe15 \/ c.recentNegative >= 3
        THEN "high" ELSE "medium"
  IN IF c.hasToxic /\ c.latestToxicAge <= TOXIC_ALERT_WINDOW_MS
     THEN pushAlert(st, Key("tone-dip", "", 0),
                    IF severe
                    THEN Message("Chat is turning hostile-step in quickly.", << >>, << >>)
                    ELSE Message("Toxic language detected-reset the tone fast.", << >>, << >>),
                    "negative", IF severe THEN "high" ELSE "medium",
                    IF c.latestToxic # NoMessage
                    THEN c.latestToxic.timestamp ELSE c.latestTimestamp,
                    Key("tone-dip", "", 0),
                    IF severe THEN HIGH_PRIORITY_COOLDOWN_MS ELSE 60000)
     ELSE IF /\ ~c.positiveMoodDominant
             /\ \/ c.hasCritical
                \/ c.negativeRatioGe5
                \/ c.sentiment <= -10
                \/ c.recentNegative >= 1
                \/ c.latestTone \in NEGATIVE_TONES
     THEN IF c.latestNegativeAge <= NEGATIVE_ALERT_WINDOW_MS
          THEN pushAlert(st, Key("tone-dip", "", 0),
                         Message("Mood dipped-address concerns before they spread.",
                                 << >>, << >>),
                         "negative", toneDipPriority,
                         IF c.latestNegative # NoMessage
                         THEN c.latestNegative.timestamp ELSE c.latestTimestamp,
                         Key("tone-dip", "", 0),
                         IF toneDipPriority = "high" THEN HIGH_PRIORITY_COOLDOWN_MS ELSE 60000)
          ELSE st
     ELSE IF IF c.mb.ready
             THEN \/ OrZero(c.mb.zCeil) <= -1400
                  \/ OrZero(c.mb.deltaPercentCeil) <= -35 * Deci
             ELSE c.trendValue <= -20 /\ c.messageRateValue <= 12
     THEN pushAlert(st, Key("momentum-drop", "", 0),
                    Message("Momentum is cooling-try a new prompt.", << >>, << >>),
                    "neutral", "medium", c.latestTimestamp,
                    Key("momentum-drop", "", 0), 60000)
     ELSE st

\* the battery of detectors, in the order POST runs them
runDetectors(c, st) ==
  toneAndMomentumDetector(c,
    spamDetector(c,
      constructiveDetector(c,
        positiveDetectors(c,
          surgeDetector(c,
            summaryDetector(c,
              returningDetector(c,
                newcomerDetector(c, st))))))))

(* ------------- /api/coach-summary: AI alert, sort, dedup, budget ------- *)
AI_COOLDOWN_MS == 900000
NoAi == [type |-> "none", priority |-> "none", title |-> "", message |-> Message("", << >>, << >>)]

toneFromAlertType(type) ==
  CASE type \in {"hype_spike", "welcome_newcomer"} -> "positive"
    [] type \in {"tone_dip", "spam_warning"} -> "negative"
    [] OTHER -> "neutral"

\* the alert type the fallback infers from the id of the primary heuristic alert
inferredType(base) ==
  CASE base.name = "spam-warning" -> "spam_warning"
    [] base.name = "tone-dip" -> "tone_dip"
    [] base.name = "velocity-surge-positive" -> "hype_spike"
    [] base.name = "velocity-surge-negative" -> "tone_dip"
    [] base.name = "velocity-surge-monitor" -> "momentum_shift"
    [] base.name \in {"chat-hype", "chat-laughter", "chat-support"} -> "hype_spike"
    [] base.name = "constructive-feedback" -> "constructive_feedback"
    [] base.name = "momentum-drop" -> "momentum_shift"
    [] base.name \in {"new-chatter-batch", "new-chatters", "new-chatter-rolling"}
         -> "welcome_newcomer"
    [] OTHER -> "status_update"

\* the comparator of both sorts: most recent first, then the heavier priority
\* (TRUE when a has to stay in front of b)
AlertBefore(a, b) ==
  \/ a.updatedAt > b.updatedAt
  \/ a.updatedAt = b.updatedAt /\ priorityWeight(a.priority) >= priorityWeight(b.priority)

RECURSIVE InsertAlert(_, _)
InsertAlert(sorted, a) ==
  IF sorted = << >> THEN <<a>>
  ELSE IF AlertBefore(sorted[Len(sorted)], a)
       THEN Append(sorted, a)
       ELSE Append(InsertAlert(SubSeq(sorted, 1, Len(sorted) - 1), a), sorted[Len(sorted)])

RECURSIVE SortAlerts(_)
\* Array.prototype.sort with the comparator above (stable)
SortAlerts(alerts) ==
  IF alerts = << >> THEN << >>
  ELSE InsertAlert(SortAlerts(SubSeq(alerts, 1, Len(alerts) - 1)), alerts[Len(alerts)])

\* the id of an alert: its base and its updatedAt
AlertId(a) == <<a.base, a.updatedAt>>

\* String.prototype.toLowerCase on message texts and titles
toLowerText(t) == IF t = "SPAM SURGE" THEN "spam surge" ELSE t
\* `${alert.tone}:${alert.priority}:${alert.message.trim().toLowerCase()}`
normalized(a) ==
  <<a.tone, a.priority,
    [title |-> toLowerText(a.message.title), text |-> toLowerText(a.message.text),
     names |-> [i \in 1..Len(a.message.names) |-> toLowerCase(a.message.names[i])],
     nums |-> a.message.nums]>>

\* considerAlert over heuristicSorted: the first alert of each base id, with
\* the bases in seenBases skipped
RECURSIVE dedupeByBase(_, _)
dedupeByBase(alerts, seenBases) ==
  IF alerts = << >> THEN << >>
  ELSE IF Head(alerts).base \in seenBases
       THEN dedupeByBase(Tail(alerts), seenBases)
       ELSE <<Head(alerts)>> \o dedupeByBase(Tail(alerts), seenBases \cup {Head(alerts).base})

\* filter((alert, index, arr) => arr.findIndex((a) => a.id === alert.id) === index)
RECURSIVE uniqueById(_, _)
uniqueById(alerts, seenIds) ==
  IF alerts = << >> THEN << >>
  ELSE IF AlertId(Head(alerts)) \in seenIds
       THEN uniqueById(Tail(alerts), seenIds)
       ELSE <<Head(alerts)>> \o uniqueById(Tail(alerts), seenIds \cup {AlertId(Head(alerts))})

\* uniqueAlerts: the first alert of each normalized (tone, priority, message)
RECURSIVE uniqueByMessage(_, _)
uniqueByMessage(alerts, seenMessages) ==
  IF alerts = << >> THEN << >>
  ELSE IF normalized(Head(alerts)) \in seenMessages
       THEN uniqueByMessage(Tail(alerts), seenMessages)
       ELSE <<Head(alerts)>>
              \o uniqueByMessage(Tail(alerts), seenMessages \cup {normalized(Head(alerts))})

\* alertBudget without MAX_ALERT_RESPONSE_LIMIT
alertBudgetUncapped(uniqueChattersValue) ==
  Max(3, BASE_ALERT_RESPONSE_LIMIT + FloorLog2(Max(uniqueChattersValue, 1)))

alertBudget(uniqueChattersValue) ==
  Max(3, Min(MAX_ALERT_RESPONSE_LIMIT,
             BASE_ALERT_RESPONSE_LIMIT + FloorLog2(Max(uniqueChattersValue, 1))))

\* the base id the fallback marks as seen: the id of the primary heuristic alert
\* when no AI alert is available (null otherwise)
NoBase == Key("", "", Null)
fallbackBaseOf(aiAlertResult, heuristicSorted) ==
  IF aiAlertResult = NoAi /\ heuristicSorted # << >>
  THEN heuristicSorted[1].base ELSE NoBase

calmAlertMessage == Message("All Calm: Chat is steady-no notable shifts yet.", << >>, << >>)
\* buildCalmAlert with the priority of an ordinary alert
buildCalmAlertMedium(timestamp) ==
  [base |-> Key("status-all-calm", "", 0), message |-> calmAlertMessage,
   tone |-> "neutral", priority |-> "medium", updatedAt |-> timestamp]

buildCalmAlert(timestamp) ==
  [base |-> Key("status-all-calm", "", 0), message |-> calmAlertMessage,
   tone |-> "neutral", priority |-> "low", updatedAt |-> timestamp]

(* --------------------- /api/coach-summary: POST ------------------------ *)
\* Number(ratio.toFixed(3)) of count / total, in thousandths
toFixed3(count, total) ==
  IF total > 0 THEN (2 * count * Milli + total) \div (2 * total) ELSE 0

\* the toneSummary of the answer to an empty batch
emptyToneSummary ==
  [counts |-> [t \in {} |-> 0], total |-> 0,
   recent |-> [positive |-> 0, negative |-> 0, toxic |-> 0],
   ratios |-> [positive |-> 0, negative |-> 0, toxic |-> 0],
   latestTone |-> "unknown"]

\* the toneSummary of the answer to a batch
toneSummaryOf(c) ==
  [counts |-> [t \in {c.classifiedMessages[i].tone : i \in 1..c.totalMessages} |->
                 CountTone(c.classifiedMessages, {t})],
   total |-> c.totalMessages,
   recent |-> [positive |-> c.recentPositive, negative |-> c.recentNegative,
               toxic |-> c.recentToxic],
   ratios |-> [positive |-> toFixed3(c.positiveCount, c.totalMessages),
               negative |-> toFixed3(c.negativeCount, c.totalMessages),
               toxic |-> toFixed3(c.toxicCount, c.totalMessages)],
   latestTone |-> c.latestTone]

\* replies of the language model: an alert that passed AiAlertSchema, nothing
\* usable (NoAi: no key, unparsable text, any other error), or a quota error
QuotaError == [type |-> "quota-error", priority |-> "none", title |-> "",
               message |-> Message("", << >>, << >>)]

\* coachAiCooldownUntil after the AI block (0 = breaker closed)
aiBreaker(coachAiCooldownUntil, apiKey, reply, now) ==
  LET resumed == IF coachAiCooldownUntil # 0 /\ now >= coachAiCooldownUntil
                 THEN 0 ELSE coachAiCooldownUntil
  IN IF ~apiKey THEN coachAiCooldownUntil
     ELSE IF resumed # 0 THEN resumed
     ELSE IF reply = QuotaError THEN now + AI_COOLDOWN_MS ELSE resumed

\* aiAlertResult after the AI block and the two filters that follow it
aiAlertOf(coachAiCooldownUntil, apiKey, reply, now, c) ==
  LET open == coachAiCooldownUntil # 0 /\ now < coachAiCooldownUntil
      generated == IF ~apiKey \/ open \/ reply = QuotaError THEN NoAi ELSE reply
  IN IF generated.type = "viewer_question" THEN NoAi
     ELSE IF /\ generated.type = "tone_dip"
             /\ c.latestToxicAge > TOXIC_ALERT_WINDOW_MS
             /\ c.latestNegativeAge > NEGATIVE_ALERT_WINDOW_MS
     THEN NoAi
     ELSE generated

EmptyEvaluation(cooldowns, memory) ==
  [cooldowns |-> cooldowns, memory |-> memory, alerts |-> << >>, candidates |-> << >>]

\* aiAlertResult after the fallback (the primary heuristic alert stands in for
\* a missing AI alert) and after the test against the heuristic messages
aiAlertResultOf(generated, heuristicSorted) ==
  LET fallback == [type |-> inferredType(heuristicSorted[1].base),
                   priority |-> heuristicSorted[1].priority,
                   title |-> heuristicSorted[1].message.text,
                   message |-> heuristicSorted[1].message]
      heuristicMessages == {heuristicSorted[i].message : i \in 1..Len(heuristicSorted)}
  IN IF generated = NoAi
     THEN IF heuristicSorted # << >> /\ fallback.message \notin heuristicMessages
          THEN fallback ELSE NoAi
     ELSE IF generated.message \in heuristicMessages THEN NoAi ELSE generated

\* finalAlerts: the AI card, when aiAlertResult passes the cooldown of its type.
\* The card's text is `${title}: ${message}` cut to 140 characters (the model's
\* texts are shorter).
aiCard(cooldowns, memory, aiAlertResult, latestTimestamp) ==
  IF aiAlertResult # NoAi
  THEN pushAlert(EmptyEvaluation(cooldowns, memory),
                 Key("ai", aiAlertResult.type, 0),
                 [aiAlertResult.message EXCEPT !.title = aiAlertResult.title],
                 toneFromAlertType(aiAlertResult.type), aiAlertResult.priority,
                 latestTimestamp, Key("ai", aiAlertResult.type, 0),
                 IF aiAlertResult.priority = "high" THEN HIGH_PRIORITY_COOLDOWN_MS ELSE 45000)
  ELSE EmptyEvaluation(cooldowns, memory)

\* limitedAlerts: finalAlerts and the deduped heuristic alerts, unique by id,
\* sorted, unique by normalized message, cut to the budget
limitAlerts(finalAlerts, heuristicSorted, fallbackBase, budget) ==
  LET deduped == dedupeByBase(heuristicSorted,
                              IF fallbackBase # NoBase THEN {fallbackBase} ELSE {})
      uniqueAlerts == uniqueByMessage(SortAlerts(uniqueById(finalAlerts \o deduped, {})), {})
  IN SubSeq(uniqueAlerts, 1, Min(budget, Len(uniqueAlerts)))

shouldEmitCalm(c, limitedAlerts) ==
  /\ limitedAlerts = << >>
  /\ c.messageRateValue <= 0
  /\ c.uniqueChattersValue <= 0
  /\ c.newcomersValue <= 0
  /\ c.sessionAge > BASELINE_READY_SECONDS * 1000

\* the calm card's own pass through shouldEmitAlert
calmCard(cooldowns, memory, c, limitedAlerts) ==
  IF shouldEmitCalm(c, limitedAlerts)
  THEN pushAlert(EmptyEvaluation(cooldowns, memory), Key("calm", "", 0),
                 calmAlertMessage, "neutral", "low", c.latestTimestamp,
                 Key("calm", "", 0), 60000)
  ELSE EmptyEvaluation(cooldowns, memory)

\* the response and the module-level state POST leaves, from the values of
\* each of its stages
respond(c, st, ai, calm, aiAlertResult, limitedAlerts, aiCooldownUntil) ==
  [cooldowns |-> calm.cooldowns,
   memory |-> ai.memory,
   aiCooldownUntil |-> aiCooldownUntil,
   alerts |-> IF calm.alerts # << >> THEN <<buildCalmAlert(c.latestTimestamp)>>
              ELSE limitedAlerts,
   ai |-> aiAlertResult,
   \* what the cycle went through, kept for the properties
   candidates |-> st.candidates \o ai.candidates \o calm.candidates,
   heuristicAlerts |-> st.alerts,
   finalAlerts |-> ai.alerts,
   alertBudget |-> alertBudget(c.uniqueChattersValue),
   limitedAlerts |-> limitedAlerts,
   empty |-> FALSE,
   toneSummary |-> toneSummaryOf(c)]

\* POST from the calm check on
afterLimit(c, st, ai, aiAlertResult, limitedAlerts, aiCooldownUntil) ==
  respond(c, st, ai, calmCard(ai.cooldowns, ai.memory, c, limitedAlerts),
          aiAlertResult, limitedAlerts, aiCooldownUntil)

\* POST from the AI card on
afterFallback(c, st, heuristicSorted, fallbackBase, ai, aiAlertResult, aiCooldownUntil) ==
  afterLimit(c, st, ai, aiAlertResult,
             limitAlerts(ai.alerts, heuristicSorted, fallbackBase,
                         alertBudget(c.uniqueChattersValue)),
             aiCooldownUntil)

\* POST from the sort of the heuristic alerts on
afterSort(c, st, memory, heuristicSorted, generated, aiCooldownUntil) ==
  afterFallback(c, st, heuristicSorted, fallbackBaseOf(generated, heuristicSorted),
                aiCard(st.cooldowns, memory, aiAlertResultOf(generated, heuristicSorted),
                       c.latestTimestamp),
                aiAlertResultOf(generated, heuristicSorted), aiCooldownUntil)

\* POST from the AI block on: st is what the detectors left
afterDetectors(sys, c, st, apiKey, reply, now) ==
  afterSort(c, st, rememberAll(st.memory, c.classifiedMessages), SortAlerts(st.alerts),
            aiAlertOf(sys.aiCooldownUntil, apiKey, reply, now, c),
            aiBreaker(sys.aiCooldownUntil, apiKey, reply, now))

\* POST with a non-empty batch.  sys = [cooldowns, memory, aiCooldownUntil] is
\* the module-level state of the route.
evaluateBatch(sys, c, apiKey, reply, now) ==
  afterDetectors(sys, c, runDetectors(c, EmptyEvaluation(sys.cooldowns, sys.memory)),
                 apiKey, reply, now)

\* POST: prune the author memory, answer an empty batch with the calm card,
\* evaluate any other batch
POST(sys, payload, apiKey, reply, now) ==
  IF payload.messages = << >>
  THEN [cooldowns |-> sys.cooldowns, memory |-> pruneAuthorMemory(sys.memory, now),
        aiCooldownUntil |-> sys.aiCooldownUntil,
        alerts |-> <<buildCalmAlert(now)>>, ai |-> NoAi,
        candidates |-> << >>, heuristicAlerts |-> << >>, finalAlerts |-> << >>,
        alertBudget |-> 0, limitedAlerts |-> << >>, empty |-> TRUE,
        toneSummary |-> emptyToneSummary]
  ELSE evaluateBatch([sys EXCEPT !.memory = pruneAuthorMemory(sys.memory, now)],
                     Context(payload), apiKey, reply, now)

(* ------------------------- inputs of the route ------------------------- *)
MaxCycles == 3
Channels == {"A", "B"}
\* session.startedAt the dashboards post: five minutes before T0
SessionStart == T0 - FIVE_MINUTES

Chat(author, text, offset) == [author |-> author, text |-> text, tone |-> "", offset |-> offset]
SpamText == "free followers at bestsite.com"
SpamOnce == <<Chat("ann", SpamText, 0)>>
SpamSurge == <<Chat("ann", SpamText, 2000), Chat("bob", SpamText, 1000),
               Chat("Ann", SpamText, 0)>>
ToxicOnce == <<Chat("bob", "you are trash", 0)>>
HypeChat == <<Chat("ann", "pog", 1000), Chat("bob", "hello", 0)>>
\* time between two requests
Steps == {5000, 40000}

NotReady == [ready |-> FALSE, long |-> Null, std |-> Null]
BaselineOf(b) == [m \in Metrics |-> b]
Quiet == [metrics |-> [messageRate |-> 0, uniqueChatters |-> 0, newcomers |-> 0,
                       sentiment |-> 0, trend |-> 0],
          baseline |-> BaselineOf(NotReady)]
Busy == [metrics |-> [messageRate |-> 20, uniqueChatters |-> 5, newcomers |-> 2,
                      sentiment |-> 0, trend |-> 0],
         baseline |-> BaselineOf(NotReady)]

AiHype == [type |-> "hype_spike", priority |-> "medium", title |-> "Hype",
           message |-> Message("Chat loves this-keep going.", << >>, << >>)]

\* A request: the batch, how long before the request its newest message was
\* sent, the metrics and baselines, whether an API key is configured and what
\* the language model replies
Request(batch, age, profile, apiKey, reply) ==
  [batch |-> batch, age |-> age, profile |-> profile, apiKey |-> apiKey, reply |-> reply]
Requests ==
  { Request(<< >>, 0, Quiet, FALSE, NoAi),
    Request(SpamOnce, 0, Quiet, FALSE, NoAi),
    Request(SpamSurge, 10000, Quiet, FALSE, NoAi),
    Request(ToxicOnce, 0, Quiet, FALSE, NoAi),
    Request(ToxicOnce, 0, Busy, FALSE, NoAi),
    Request(SpamOnce, 0, Busy, TRUE, AiHype),
    Request(HypeChat, 0, Busy, TRUE, AiHype),
    Request(HypeChat, 0, Busy, TRUE, QuotaError) }

(* ----------------------- chat tone classification ----------------------- *)
\* workspace.ts.  Confidences are in hundredths.  A chat text is a string; an
\* entry of recentMessages is [author, text]: the worker passes
\* `${author}: ${text}` (author # ""), other callers pass a plain text
\* (author = "").
CHAT_TONE_COOLDOWN_MS == 900000
ToneResult(tone, confidence, rationale) ==
  [tone |-> tone, confidence |-> confidence, rationale |-> rationale]
\* String.prototype.trim / toLowerCase on the texts the model draws
trimText(t) == IF t = "   " THEN "" ELSE t
toLowerChat(t) == IF t = "GG" THEN "gg" ELSE t
\* the texts each regex matches, of the texts the model draws
spamRegex == {"free followers at bestsite.com"}
toxicRegex == {"you are trash"}
criticalRegex == {"this is boring", "you are trash"}
constructiveRegex == {"maybe try again"}
hypeRegex == {"pog"}
positiveRegex == {"gg", "GG", "great"}
humorRegex == {"lol"}
sarcasticRegex == {"sure", "great"}
endsWithQuestionMark == {"why?"}
shorterThanFive == {"gg", "GG", "pog", "lol", "ok", "sure", "why?"}
ChatTexts ==
  {"", "   ", "free followers at bestsite.com", "you are trash", "this is boring",
   "maybe try again", "pog", "gg", "GG", "great", "lol", "sure", "why?", "ok",
   "hello there"}

\* heuristicTone: the first rule that matches
heuristicTone(text) ==
  CASE trimText(text) = "" -> ToneResult("unknown", 0, "Empty message")
    [] trimText(text) \in spamRegex ->
         ToneResult("spam", 82, "Matches spam-like pattern")
    [] trimText(text) \in toxicRegex ->
         ToneResult("toxic", 75, "Matches toxic language pattern")
    [] trimText(text) \in criticalRegex ->
         ToneResult("critical", 65, "Matches critical language pattern")
    [] trimText(text) \in constructiveRegex ->
         ToneResult("constructive", 60, "Contains constructive feedback")
    [] trimText(text) \in hypeRegex -> ToneResult("hype", 65, "Matches hype language")
    [] trimText(text) \in positiveRegex ->
         ToneResult("supportive", 60, "Contains supportive language")
    [] trimText(text) \in humorRegex -> ToneResult("humor", 55, "Contains laughter markers")
    [] trimText(text) \in sarcasticRegex ->
         ToneResult("sarcastic", 45, "Possible sarcasm keywords")
    [] trimText(text) \in endsWithQuestionMark ->
         ToneResult("question", 50, "Ends with a question mark")
    [] trimText(text) \in shorterThanFive ->
         ToneResult("informational", 30, "Very short/ambiguous message")
    [] OTHER -> ToneResult("unknown", 20, "No strong tone detected")

\* recentMessages.filter(recent => recent.trim().toLowerCase() === normalized).length
recentMatches(message, recentMessages) ==
  Cardinality({i \in 1..Len(recentMessages) :
                 /\ recentMessages[i].author = ""
                 /\ toLowerChat(trimText(recentMessages[i].text))
                      = toLowerChat(trimText(message))})

\* what generateObject can do: answer an object with a tone, answer an object
\* without one, throw (network, or the answer fails ChatToneSchema), throw a
\* quota / rate-limit error.  A call can also stay pending for ever.
RemoteTone == ToneResult("humor", 90, "remote")
RemoteOutcomes == {"tone", "noTone", "throws", "schema", "quota"}
isQuotaOrRateLimitError(outcome) == outcome = "quota"

\* classifyChatTone up to its await: either an answer without a remote call
\* (remote = FALSE) or the remote request is started.  `path` names the return
\* statement taken.
classifyChatToneCall(message, recentMessages, apiKey, cooldownUntil, now) ==
  IF trimText(message) = ""
  THEN [remote |-> FALSE, path |-> "empty", result |-> heuristicTone(message),
        cooldownUntil |-> cooldownUntil]
  ELSE IF recentMatches(message, recentMessages) >= 2
  THEN [remote |-> FALSE, path |-> "repeated",
        result |-> ToneResult("spam", 80, "Repeated identical message"),
        cooldownUntil |-> cooldownUntil]
  ELSE IF heuristicTone(message).tone = "spam" /\ heuristicTone(message).confidence >= 75
  THEN [remote |-> FALSE, path |-> "spam", result |-> heuristicTone(message),
        cooldownUntil |-> cooldownUntil]
  ELSE IF ~apiKey
  THEN [remote |-> FALSE, path |-> "noKey", result |-> heuristicTone(message),
        cooldownUntil |-> cooldownUntil]
  ELSE IF cooldownUntil # 0 /\ now < cooldownUntil
  THEN [remote |-> FALSE, path |-> "cooldown", result |-> heuristicTone(message),
        cooldownUntil |-> cooldownUntil]
  ELSE \* an elapsed cooldown is cleared, the request goes out
       [remote |-> TRUE, path |-> "remote", result |-> heuristicTone(message),
        cooldownUntil |-> 0]

\* a classifier that lets the failure of the remote call through
classifyChatToneReturnRemoteOnly(message, outcome, cooldownUntil, now) ==
  [path |-> outcome, result |-> RemoteTone,
   cooldownUntil |-> IF outcome = "quota" THEN now + CHAT_TONE_COOLDOWN_MS ELSE 0]

\* classifyChatTone from the return of generateObject on
classifyChatToneReturn(message, outcome, cooldownUntil, now) ==
  CASE outcome = "tone" ->
         [path |-> "tone", result |-> RemoteTone, cooldownUntil |-> 0]
    [] outcome = "noTone" ->
         [path |-> "noTone", result |-> heuristicTone(message), cooldownUntil |-> 0]
    [] OTHER ->
         [path |-> outcome, result |-> heuristicTone(message),
          cooldownUntil |-> IF isQuotaOrRateLimitError(outcome)
                            THEN now + CHAT_TONE_COOLDOWN_MS ELSE cooldownUntil]

(* ------------------------------- state --------------------------------- *)
VARIABLES
  aggregator,       \* the worker's MetricsAggregator
  activeStreamId,   \* TRUE while an ingestion session is active
  sessionStartedAt, \* timestamp the active session started at, or Null
  snapshot,         \* the snapshot returned by the last ingest
  prevSnapshot,     \* the snapshot returned by the ingest before it
  ingested,         \* every record ingested since the last reset, in order
  spikes,           \* every SpikeEvent emitted since the last reset, oldest first
  nIngest,          \* chat events delivered so far
  lastOp,           \* the operation that produced this state
  alertCooldowns,        \* route.ts: module-level Map key -> {timestamp, priority}
  sessionAuthorMemory,   \* route.ts: module-level Map author -> last timestamp
  coachAiCooldownUntil,  \* route.ts: module-level AI breaker (0 = closed)
  clock,            \* Date.now() of the route's process
  response,         \* what the last POST answered and went through
  solo,             \* per channel: the cooldowns and author memory that the
                    \* channel's own evaluation cycles alone would have left
  nCycles,          \* evaluation cycles run so far
  handlers,         \* worker: one entry per chat event received, with the
                    \* await its async handler is suspended on
  startingSession,  \* worker: startIngestionSession is running
  pendingMessages,  \* worker: the chat payloads buffered since the session began
  chatToneAiCooldownUntil,  \* workspace.ts: module-level breaker (0 = closed)
  workerNow,        \* Date.now() of the worker's process
  openaiApiKey,     \* the worker's environment holds an API key
  toneCalls,        \* the calls of classifyChatTone made by other callers
  moodAiCooldownUntil,  \* worker: breaker of the mood analysis (0 = closed)
  llmProcessing,    \* worker: a mood analysis is running
  moodBatch,        \* worker: the batch the running mood analysis took, and
                    \* whether its remote request is out
  moodLog,          \* the instants at which remote mood requests were issued
                    \* and at which one failed on the quota
  nTicks,           \* timer ticks so far
  dashboards,       \* per open dashboard page: chat, presented alerts and the
                    \* refs of fetchAlerts
  fetches,          \* the requests to /api/coach-summary, each with the
                    \* position of its cycle
  dashLog,          \* what the alert cycles did, kept for the properties
  twin,             \* a second aggregator, fed a suffix of the events
  twinLog,          \* its last snapshot, and whether the two buffers were
                    \* equal before the last record
  applied           \* the last application of a pure function: arguments
                    \* and results

workerVars == <<aggregator, activeStreamId, sessionStartedAt, snapshot, prevSnapshot,
                ingested, spikes, nIngest>>
routeVars == <<alertCooldowns, sessionAuthorMemory, coachAiCooldownUntil, clock,
               response, solo, nCycles>>
handlerVars == <<handlers, startingSession, pendingMessages, chatToneAiCooldownUntil,
                 workerNow, openaiApiKey, toneCalls>>
moodVars == <<moodAiCooldownUntil, llmProcessing, moodBatch, moodLog, nTicks>>
dashVars == <<dashboards, fetches, dashLog>>
twinVars == <<twin, twinLog>>
laterVars == <<dashVars, twinVars, applied>>
otherVars == <<moodVars, laterVars>>
vars == <<workerVars, lastOp, routeVars, handlerVars, otherVars>>

NoCooldowns == [k \in {} |-> NoEntry]
NoMemory == [a \in {} |-> 0]
NoResponse ==
  [channel |-> "", alerts |-> << >>, ai |-> NoAi, candidates |-> << >>,
   heuristicAlerts |-> << >>, finalAlerts |-> << >>, alertBudget |-> 0,
   limitedAlerts |-> << >>, empty |-> FALSE, soloAlerts |-> << >>,
   toneSummary |-> emptyToneSummary,
   metrics |-> Quiet.metrics, startedAt |-> Null, latest |-> Null, tones |-> {},
   memoryBefore |-> NoMemory, messages |-> << >>]

NoToneResult == ToneResult("", Null, "")
\* the pages that show the dashboard of the one channel (two browser tabs)
Dashboards == {"tab1", "tab2"}
NoFingerprint == [set |-> FALSE, text |-> << >>]
NotApplied == [fn |-> "", base |-> 0, weaker |-> 0, stronger |-> 0,
               atWeaker |-> 0, atStronger |-> 0]
NoMoodBatch == [messages |-> << >>, pc |-> "idle"]

\* the state after construction, whatever the environment holds
Boot ==
  /\ aggregator = reset
  /\ activeStreamId = FALSE
  /\ sessionStartedAt = Null
  /\ snapshot = NoSnapshot
  /\ prevSnapshot = NoSnapshot
  /\ ingested = << >>
  /\ spikes = << >>
  /\ nIngest = 0
  /\ lastOp = "init"
  /\ alertCooldowns = NoCooldowns
  /\ sessionAuthorMemory = NoMemory
  /\ coachAiCooldownUntil = 0
  /\ clock = T0
  /\ response = NoResponse
  /\ solo = [ch \in Channels |-> [cooldowns |-> NoCooldowns, memory |-> NoMemory]]
  /\ nCycles = 0
  /\ handlers = << >>
  /\ startingSession = FALSE
  /\ pendingMessages = << >>
  /\ chatToneAiCooldownUntil = 0
  /\ workerNow = T0
  /\ toneCalls = << >>
  /\ moodAiCooldownUntil = 0
  /\ llmProcessing = FALSE
  /\ moodBatch = NoMoodBatch
  /\ moodLog = [requests |-> {}, quotas |-> {}]
  /\ nTicks = 0
  /\ dashboards = [d \in Dashboards |->
                     [chat |-> << >>, alerts |-> << >>,
                      alertsFingerprint |-> NoFingerprint,
                      alertsFetchInFlight |-> FALSE, lastAlertsFetchAt |-> 0]]
  /\ fetches = << >>
  /\ dashLog = [completed |-> "", reentered |-> FALSE, dropped |-> {}]
  /\ twin = reset
  /\ twinLog = [snapshot |-> NoSnapshot, sameBuffer |-> FALSE]
  /\ applied = NotApplied

\* the aggregator and the route never read the worker's API key
Init == Boot /\ openaiApiKey = FALSE
\* the worker with or without an API key in its environment
WorkerInit == Boot /\ openaiApiKey \in BOOLEAN

\* timestamp of the chat event delivered last (T0 before the first)
lastDelivered == IF ingested = << >> THEN T0 ELSE ingested[Len(ingested)].timestamp

\* instance.on("message"): starts a session when none is active (which resets
\* the aggregator), then ingests the record
\* the handler once the record is built: r is what ingest returned for it
Accept(record, r) ==
  LET start == ~activeStreamId
  IN    /\ aggregator' = r.agg
        /\ prevSnapshot' = IF start THEN NoSnapshot ELSE snapshot
        /\ snapshot' = r.snapshot
        /\ activeStreamId' = TRUE
        /\ sessionStartedAt' = IF start THEN record.timestamp ELSE sessionStartedAt
        /\ ingested' = IF start THEN <<record>> ELSE Append(ingested, record)
        /\ spikes' = IF r.snapshot.event # NoEvent
                     THEN Append(IF start THEN << >> ELSE spikes, r.snapshot.event)
                     ELSE IF start THEN << >> ELSE spikes
        /\ nIngest' = nIngest + 1
        /\ lastOp' = IF start THEN "start" ELSE "ingest"
        /\ pendingMessages' =
             Append(IF start THEN << >> ELSE pendingMessages,
                    [id |-> record.id, author |-> record.authorHash, text |-> "",
                     timestamp |-> record.timestamp, tone |-> "unknown"])
        /\ UNCHANGED otherVars
        /\ UNCHANGED <<routeVars, handlers, startingSession, chatToneAiCooldownUntil,
                       workerNow, openaiApiKey, toneCalls>>

\* the aggregator a message meets: a message that starts a session meets a
\* reset one
met == IF activeStreamId THEN aggregator ELSE reset

Deliver(a, d, s) ==
  /\ lastDelivered + d > 0
  /\ \E record \in {[id |-> nIngest + 1, timestamp |-> lastDelivered + d,
                      authorHash |-> a, sentiment |-> s]} :
       Accept(record, ingest(met, record))

OnMessage(a, d, s) ==
  /\ nIngest < MaxIngest
  /\ Deliver(a, d, s)

\* endIngestionSession: the stream went offline or the client disconnected.
\* Nothing in it reaches the route's module-level maps.
EndIngestionSession ==
  /\ activeStreamId
  /\ aggregator' = reset
  /\ activeStreamId' = FALSE
  /\ sessionStartedAt' = Null
  /\ snapshot' = NoSnapshot
  /\ prevSnapshot' = NoSnapshot
  /\ ingested' = << >>
  /\ spikes' = << >>
  /\ lastOp' = "reset"
  /\ pendingMessages' = << >>
  /\ UNCHANGED nIngest
  /\ UNCHANGED otherVars
  /\ UNCHANGED <<routeVars, handlers, startingSession, chatToneAiCooldownUntil,
                 workerNow, openaiApiKey, toneCalls>>

\* the request body the dashboard posts: the batch stamped relative to `at`,
\* the metrics and baselines of the profile, the session start
BuildPayload(batch, profile, startedAt, at) ==
  [messages |-> [i \in 1..Len(batch) |->
                   [author |-> batch[i].author, text |-> batch[i].text,
                    tone |-> batch[i].tone, timestamp |-> at - batch[i].offset]],
   metrics |-> profile.metrics,
   baseline |-> profile.baseline,
   startedAt |-> startedAt]

\* One request to POST /api/coach-summary, from the dashboard of channel ch.
\* The channel is in the body the dashboard posts, but RequestSchema has no
\* such field: the handler never sees it.
Evaluate(ch, req, startedAt, dt) ==
  /\ nCycles < MaxCycles
  /\ \E r \in {POST([cooldowns |-> alertCooldowns, memory |-> sessionAuthorMemory,
                     aiCooldownUntil |-> coachAiCooldownUntil],
                    BuildPayload(req.batch, req.profile, startedAt, clock + dt - req.age),
                    req.apiKey, req.reply, clock + dt)} :
     \* the same request against what ch's own cycles alone would have left
     \E alone \in {IF solo[ch] = [cooldowns |-> alertCooldowns,
                                  memory |-> sessionAuthorMemory]
                   THEN r
                   ELSE POST([cooldowns |-> solo[ch].cooldowns,
                              memory |-> solo[ch].memory,
                              aiCooldownUntil |-> coachAiCooldownUntil],
                             BuildPayload(req.batch, req.profile, startedAt,
                                          clock + dt - req.age),
                             req.apiKey, req.reply, clock + dt)} :
        /\ alertCooldowns' = r.cooldowns
        /\ sessionAuthorMemory' = r.memory
        /\ coachAiCooldownUntil' = r.aiCooldownUntil
        /\ clock' = clock + dt
        /\ response' = [channel |-> ch, alerts |-> r.alerts, ai |-> r.ai,
                        candidates |-> r.candidates,
                        heuristicAlerts |-> r.heuristicAlerts,
                        finalAlerts |-> r.finalAlerts, alertBudget |-> r.alertBudget,
                        limitedAlerts |-> r.limitedAlerts, empty |-> r.empty,
                        toneSummary |-> r.toneSummary,
                        soloAlerts |-> alone.alerts,
                        \* what the request carried
                        metrics |-> req.profile.metrics, startedAt |-> startedAt,
                        latest |-> clock + dt - req.age,
                        memoryBefore |-> sessionAuthorMemory,
                        messages |-> BuildPayload(req.batch, req.profile, startedAt,
                                                  clock + dt - req.age).messages,
                        tones |-> {resolveTone(m).tone :
                                     m \in {BuildPayload(req.batch, req.profile, startedAt,
                                                         0).messages[i] :
                                              i \in 1..Len(req.batch)}}]
        /\ solo' = [solo EXCEPT ![ch] = [cooldowns |-> alone.cooldowns,
                                         memory |-> alone.memory]]
        /\ nCycles' = nCycles + 1
        /\ lastOp' = "evaluate"
        /\ UNCHANGED otherVars
        /\ UNCHANGED <<workerVars, handlerVars>>

Next ==
  \/ \E a \in Authors, d \in Deltas, s \in Sentiments : OnMessage(a, d, s)
  \/ EndIngestionSession

Spec == Init /\ [][Next]_vars

\* the alert engine alone, one dashboard
AlertNext ==
  \E req \in Requests, dt \in Steps : Evaluate("A", req, SessionStart, dt)

AlertSpec == Init /\ [][AlertNext]_vars

\* two dashboards, one per channel, posting to the same route
ChannelRequests ==
  { Request(SpamOnce, 0, Quiet, FALSE, NoAi),
    Request(ToxicOnce, 0, Busy, FALSE, NoAi),
    Request(HypeChat, 0, Busy, TRUE, AiHype) }
ChannelNext ==
  \E ch \in Channels, req \in ChannelRequests : Evaluate(ch, req, SessionStart, 5000)

ChannelSpec == Init /\ [][ChannelNext]_vars

\* the worker's sessions and the dashboard's evaluation cycles side by side
SessionRequests ==
  { Request(SpamOnce, 0, Quiet, FALSE, NoAi),
    Request(ToxicOnce, 0, Busy, FALSE, NoAi) }
SessionNext ==
  \/ \E a \in Authors : OnMessage(a, 20000, 0)
  \/ EndIngestionSession
  \/ \E req \in SessionRequests : Evaluate("A", req, sessionStartedAt, 5000)

SessionSpec == Init /\ [][SessionNext]_vars

\* idle dashboards: empty batches and small talk, with and without activity
\* in the metrics, early and late in the session
HelloChat == <<Chat("ann", "hello there", 0)>>
RecentStart == T0 - 10000
CalmRequests ==
  { Request(<< >>, 0, Quiet, FALSE, NoAi),
    Request(<< >>, 0, Busy, FALSE, NoAi),
    Request(HelloChat, 0, Quiet, FALSE, NoAi),
    Request(HelloChat, 0, Busy, FALSE, NoAi) }
CalmNext ==
  \E req \in CalmRequests, startedAt \in {SessionStart, RecentStart}, dt \in Steps :
    Evaluate("A", req, startedAt, dt)

CalmSpec == Init /\ [][CalmNext]_vars

\* lively chats: positive messages alone and mixed with hostile ones
ToxicThenHype == <<Chat("bob", "you are trash", 1000), Chat("ann", "pog", 0)>>
HypeThenToxic == <<Chat("ann", "pog", 1000), Chat("bob", "you are trash", 0)>>
Laughs == <<Chat("ann", "lol", 2000), Chat("bob", "gg", 1000), Chat("ann", "pog", 0)>>
Sparse == [metrics |-> [messageRate |-> 20, uniqueChatters |-> 2, newcomers |-> 0,
                        sentiment |-> 0, trend |-> 0],
           baseline |-> BaselineOf(NotReady)]
ToneRequests ==
  { Request(HypeChat, 0, Busy, FALSE, NoAi),
    Request(Laughs, 0, Busy, FALSE, NoAi),
    Request(Laughs, 0, Sparse, FALSE, NoAi),
    Request(ToxicThenHype, 0, Busy, FALSE, NoAi),
    Request(HypeThenToxic, 0, Busy, FALSE, NoAi) }
ToneNext ==
  \E req \in ToneRequests, startedAt \in {SessionStart, RecentStart} :
    Evaluate("A", req, startedAt, 5000)

ToneSpec == Init /\ [][ToneNext]_vars

(* --------------------- the worker's message handler -------------------- *)
\* instance.on("message", async ...) runs once per chat event.  Each await in
\* it is a point where the handlers of other events may run: the handler of an
\* event is modelled by the await it is suspended on (pc) and one action per
\* return of an awaited call.
MaxEvents == 2
WorkerTexts == {"pog", "free followers at bestsite.com"}
AuthModes == {"oauth", "anonymous"}
\* the instants of the worker's clock at which something happens
WorkerTimes ==
  {T0, T0 + 20000, T0 + 20000 + CHAT_TONE_COOLDOWN_MS}

Handler(timestamp, author, text) ==
  [timestamp |-> timestamp, author |-> author, text |-> text, pc |-> "received",
   path |-> "", tone |-> NoToneResult]
\* pendingMessages.slice(-6).map(entry => `${entry.author}: ${entry.text}`)
toneContext(pending) ==
  [i \in 1..Min(6, Len(pending)) |->
     [author |-> pending[Len(pending) - Min(6, Len(pending)) + i].author,
      text |-> pending[Len(pending) - Min(6, Len(pending)) + i].text]]

\* from the tokenizer to the await that follows the call of classifyChatTone:
\* either the remote request is out and the handler waits for it, or
\* classifyChatTone answered by itself and the handler waits for the
\* appendChatMessage mutation
AfterSession(i, hs) ==
  \E c \in {classifyChatToneCall(hs[i].text, toneContext(pendingMessages), openaiApiKey,
                                 chatToneAiCooldownUntil, workerNow)} :
    /\ chatToneAiCooldownUntil' = c.cooldownUntil
    /\ handlers' = [hs EXCEPT ![i] =
                      IF c.remote
                      THEN [@ EXCEPT !.pc = "classify"]
                      ELSE [@ EXCEPT !.pc = "persist", !.path = c.path,
                                     !.tone = c.result]]

\* from `lastChatMessageAt = timestamp` to the next await
AfterToken(i, hs) ==
  IF activeStreamId
  THEN AfterSession(i, hs) /\ UNCHANGED startingSession
  ELSE IF startingSession
  THEN \* startIngestionSession returns at once, the handler finds no session
       /\ handlers' = [hs EXCEPT ![i].pc = "dropped"]
       /\ UNCHANGED <<startingSession, chatToneAiCooldownUntil>>
  ELSE /\ startingSession' = TRUE
       /\ handlers' = [hs EXCEPT ![i].pc = "startSession"]
       /\ UNCHANGED chatToneAiCooldownUntil

\* a chat event arrives (events of the bot itself are ignored before this)
Receive(a, text, authMode) ==
  /\ nIngest < MaxEvents
  /\ nIngest' = nIngest + 1
  /\ IF authMode = "oauth"
     THEN /\ handlers' = Append(handlers,
                                [Handler(workerNow, a, text) EXCEPT !.pc = "token"])
          /\ UNCHANGED <<startingSession, chatToneAiCooldownUntil>>
     ELSE AfterToken(Len(handlers) + 1, Append(handlers, Handler(workerNow, a, text)))
  /\ lastOp' = "receive"
  /\ UNCHANGED otherVars
  /\ UNCHANGED <<aggregator, activeStreamId, sessionStartedAt, snapshot, prevSnapshot,
                 ingested, spikes, routeVars, pendingMessages, workerNow, openaiApiKey,
                 toneCalls>>

\* ensureFreshToken returns; when it throws the handler returns
TokenReturns(i, ok) ==
  /\ i \in 1..Len(handlers)
  /\ handlers[i].pc = "token"
  /\ IF ok
     THEN AfterToken(i, handlers)
     ELSE /\ handlers' = [handlers EXCEPT ![i].pc = "dropped"]
          /\ UNCHANGED <<startingSession, chatToneAiCooldownUntil>>
  /\ lastOp' = "token"
  /\ UNCHANGED otherVars
  /\ UNCHANGED <<workerVars, routeVars, pendingMessages, workerNow, openaiApiKey,
                 toneCalls>>

\* startIngestionSession: the startSession mutation returns
StartSessionReturns(i, ok) ==
  /\ i \in 1..Len(handlers)
  /\ handlers[i].pc = "startSession"
  /\ IF ok
     THEN /\ aggregator' = reset
          /\ pendingMessages' = << >>
          /\ snapshot' = NoSnapshot
          /\ prevSnapshot' = NoSnapshot
          /\ ingested' = << >>
          /\ spikes' = << >>
          /\ handlers' = [handlers EXCEPT ![i].pc = "postReset"]
          /\ UNCHANGED startingSession
     ELSE /\ startingSession' = FALSE
          /\ handlers' = [handlers EXCEPT ![i].pc = "dropped"]
          /\ UNCHANGED <<aggregator, pendingMessages, snapshot, prevSnapshot, ingested,
                         spikes>>
  /\ lastOp' = IF ok THEN "reset" ELSE "startFailed"
  /\ UNCHANGED otherVars
  /\ UNCHANGED <<activeStreamId, sessionStartedAt, nIngest, routeVars,
                 chatToneAiCooldownUntil, workerNow, openaiApiKey, toneCalls>>

\* startIngestionSession: the "reset" live-feed post returns
PostResetReturns(i, ok) ==
  /\ i \in 1..Len(handlers)
  /\ handlers[i].pc = "postReset"
  /\ IF ok
     THEN /\ activeStreamId' = TRUE
          /\ sessionStartedAt' = handlers[i].timestamp
          /\ handlers' = [handlers EXCEPT ![i].pc = "postSession"]
          /\ UNCHANGED startingSession
     ELSE /\ startingSession' = FALSE
          /\ handlers' = [handlers EXCEPT ![i].pc = "dropped"]
          /\ UNCHANGED <<activeStreamId, sessionStartedAt>>
  /\ lastOp' = "postReset"
  /\ UNCHANGED otherVars
  /\ UNCHANGED <<aggregator, snapshot, prevSnapshot, ingested, spikes, nIngest,
                 routeVars, pendingMessages, chatToneAiCooldownUntil, workerNow,
                 openaiApiKey, toneCalls>>

\* startIngestionSession: the "session" live-feed post returns or throws; the
\* handler goes on to classify its message
PostSessionReturns(i) ==
  /\ i \in 1..Len(handlers)
  /\ handlers[i].pc = "postSession"
  /\ startingSession' = FALSE
  /\ IF activeStreamId
     THEN AfterSession(i, handlers)
     ELSE /\ handlers' = [handlers EXCEPT ![i].pc = "dropped"]
          /\ UNCHANGED chatToneAiCooldownUntil
  /\ lastOp' = "postSession"
  /\ UNCHANGED otherVars
  /\ UNCHANGED <<workerVars, routeVars, pendingMessages, workerNow, openaiApiKey,
                 toneCalls>>

\* generateObject returns or throws; classifyChatTone answers and the handler
\* awaits the appendChatMessage mutation
ClassifierReturns(i, outcome) ==
  /\ i \in 1..Len(handlers)
  /\ handlers[i].pc = "classify"
  /\ \E r \in {classifyChatToneReturn(handlers[i].text, outcome,
                                      chatToneAiCooldownUntil, workerNow)} :
       /\ chatToneAiCooldownUntil' = r.cooldownUntil
       /\ handlers' = [handlers EXCEPT ![i] =
                         [@ EXCEPT !.pc = "persist", !.path = r.path, !.tone = r.result]]
  /\ lastOp' = "classified"
  /\ UNCHANGED otherVars
  /\ UNCHANGED <<workerVars, routeVars, startingSession, pendingMessages, workerNow,
                 openaiApiKey, toneCalls>>

\* the appendChatMessage mutation returns or throws (the error is logged): the
\* record is ingested and the chat payload buffered
PersistReturns(i) ==
  /\ i \in 1..Len(handlers)
  /\ handlers[i].pc = "persist"
  /\ \E r \in {ingest(aggregator, [id |-> i, timestamp |-> handlers[i].timestamp,
                                   authorHash |-> handlers[i].author, sentiment |-> 0])} :
       /\ aggregator' = r.agg
       /\ prevSnapshot' = snapshot
       /\ snapshot' = r.snapshot
       /\ spikes' = IF r.snapshot.event # NoEvent
                    THEN Append(spikes, r.snapshot.event) ELSE spikes
  /\ ingested' = Append(ingested, [id |-> i, timestamp |-> handlers[i].timestamp,
                                   authorHash |-> handlers[i].author, sentiment |-> 0])
  /\ pendingMessages' =
       Append(pendingMessages, [id |-> i, author |-> handlers[i].author,
                                text |-> handlers[i].text,
                                timestamp |-> handlers[i].timestamp,
                                tone |-> handlers[i].tone.tone])
  /\ handlers' = [handlers EXCEPT ![i].pc = "done"]
  /\ lastOp' = "ingest"
  /\ UNCHANGED otherVars
  /\ UNCHANGED <<activeStreamId, sessionStartedAt, nIngest, routeVars, startingSession,
                 chatToneAiCooldownUntil, workerNow, openaiApiKey, toneCalls>>

\* time passes in the worker's process
WorkerTick(t) ==
  /\ t > workerNow
  /\ workerNow' = t
  /\ lastOp' = "tick"
  /\ UNCHANGED otherVars
  /\ UNCHANGED <<workerVars, routeVars, handlers, startingSession, pendingMessages,
                 chatToneAiCooldownUntil, openaiApiKey, toneCalls>>

WorkerNext ==
  \/ \E a \in Authors, text \in WorkerTexts, authMode \in AuthModes :
       Receive(a, text, authMode)
  \/ \E i \in 1..MaxEvents, ok \in BOOLEAN : TokenReturns(i, ok)
  \/ \E i \in 1..MaxEvents, ok \in BOOLEAN : StartSessionReturns(i, ok)
  \/ \E i \in 1..MaxEvents, ok \in BOOLEAN : PostResetReturns(i, ok)
  \/ \E i \in 1..MaxEvents : PostSessionReturns(i)
  \/ \E i \in 1..MaxEvents, outcome \in RemoteOutcomes : ClassifierReturns(i, outcome)
  \/ \E i \in 1..MaxEvents : PersistReturns(i)
  \/ \E t \in WorkerTimes : WorkerTick(t)

WorkerSpec == WorkerInit /\ [][WorkerNext]_vars

\* Scheduling.  The calls to the Convex backend and to the live feed are HTTP
\* requests of clients that answer or fail, and the event loop resumes a
\* handler whose awaited call has settled: each such return is weakly fair.
\* generateObject is called without a timeout or an abort signal: nothing
\* makes it settle, so ClassifierReturns carries no fairness.
WorkerFairness ==
  \A i \in 1..MaxEvents :
    /\ WF_vars(\E ok \in BOOLEAN : TokenReturns(i, ok))
    /\ WF_vars(\E ok \in BOOLEAN : StartSessionReturns(i, ok))
    /\ WF_vars(\E ok \in BOOLEAN : PostResetReturns(i, ok))
    /\ WF_vars(PostSessionReturns(i))
    /\ WF_vars(PersistReturns(i))

WorkerFairSpec == WorkerSpec /\ WorkerFairness

(* ---------------------- callers of classifyChatTone -------------------- *)
\* classifyChatTone called as an exported function: each call runs to its
\* await when made, and from the return of generateObject on when that
\* settles; several calls may be pending at once.
MaxCalls == 3
CallTexts == {"pog", "   ", "free followers at bestsite.com"}
Plain(text) == [author |-> "", text |-> text]
CallContexts == {<< >>, <<Plain("pog"), Plain("hello there"), Plain("pog")>>}

\* a call of classifyChatTone(message, {recentMessages})
CallTone(message, recentMessages) ==
  /\ Len(toneCalls) < MaxCalls
  /\ \E c \in {classifyChatToneCall(message, recentMessages, openaiApiKey,
                                    chatToneAiCooldownUntil, workerNow)} :
       /\ chatToneAiCooldownUntil' = c.cooldownUntil
       /\ toneCalls' =
            Append(toneCalls,
                   [message |-> message, recentMessages |-> recentMessages,
                    calledAt |-> workerNow,
                    \* the breaker as the call found it
                    cooldownUntil |-> chatToneAiCooldownUntil,
                    pc |-> IF c.remote THEN "pending" ELSE "resolved",
                    remoteAt |-> IF c.remote THEN workerNow ELSE Null,
                    path |-> IF c.remote THEN "" ELSE c.path,
                    result |-> IF c.remote THEN NoToneResult ELSE c.result,
                    settledAt |-> Null])
  /\ lastOp' = "call"
  /\ UNCHANGED otherVars
  /\ UNCHANGED <<workerVars, routeVars, handlers, startingSession, pendingMessages,
                 workerNow, openaiApiKey>>

\* generateObject settles for call i
ToneReturns(i, outcome) ==
  /\ i \in 1..Len(toneCalls)
  /\ toneCalls[i].pc = "pending"
  /\ \E r \in {classifyChatToneReturn(toneCalls[i].message, outcome,
                                      chatToneAiCooldownUntil, workerNow)} :
       /\ chatToneAiCooldownUntil' = r.cooldownUntil
       /\ toneCalls' = [toneCalls EXCEPT ![i] =
                          [@ EXCEPT !.pc = "resolved", !.path = r.path,
                                    !.result = r.result, !.settledAt = workerNow]]
  /\ lastOp' = "settled"
  /\ UNCHANGED otherVars
  /\ UNCHANGED <<workerVars, routeVars, handlers, startingSession, pendingMessages,
                 workerNow, openaiApiKey>>

ClassifyNext ==
  \/ \E message \in CallTexts, recentMessages \in CallContexts :
       CallTone(message, recentMessages)
  \/ \E i \in 1..MaxCalls, outcome \in RemoteOutcomes : ToneReturns(i, outcome)
  \/ \E t \in WorkerTimes : WorkerTick(t)

ClassifySpec == WorkerInit /\ [][ClassifyNext]_vars

(* ------------------------ the periodic mood analysis ------------------- *)
\* part_000: setInterval(..., LLM_INTERVAL_MS) takes the buffered messages and
\* runs analyzeChatSlice on them, one analysis at a time (llmProcessing).
MaxTicks == 4
LLM_INTERVAL_MS == 10000
AI_QUOTA_COOLDOWN_MS == 900000
MAX_BUFFERED_MESSAGES == 200
MoodOutcomes == {"object", "noObject", "throws", "quota"}

\* pendingMessages.slice(-MAX_BUFFERED_MESSAGES) when the buffer is longer
capBuffered(msgs) ==
  IF Len(msgs) > MAX_BUFFERED_MESSAGES
  THEN SubSeq(msgs, Len(msgs) - MAX_BUFFERED_MESSAGES + 1, Len(msgs))
  ELSE msgs

\* the head of the .then callback: `if (moodAiCooldownUntil) moodAiCooldownUntil = 0`
moodThen(cooldownUntil) == 0

\* analyzeChatSlice up to its await: null without a request (remote = FALSE),
\* or the request to the model goes out
analyzeChatSliceCall(messages, apiKey, cooldownUntil, now) ==
  IF ~apiKey
  THEN [remote |-> FALSE, cooldownUntil |-> cooldownUntil]
  ELSE IF cooldownUntil # 0 /\ now < cooldownUntil
  THEN [remote |-> FALSE, cooldownUntil |-> cooldownUntil]
  ELSE \* an elapsed cooldown is cleared
       [remote |-> messages # << >>, cooldownUntil |-> 0]

\* the timer fires, LLM_INTERVAL_MS after it fired last.  With no analysis
\* running and messages buffered it takes the buffer as its batch and calls
\* analyzeChatSlice; when that answers null without a request, the .then and
\* .finally callbacks run before anything else does.
LlmInterval ==
  /\ nTicks < MaxTicks
  /\ nTicks' = nTicks + 1
  /\ workerNow' = workerNow + LLM_INTERVAL_MS
  /\ IF llmProcessing \/ pendingMessages = << >>
     THEN UNCHANGED <<pendingMessages, llmProcessing, moodBatch, moodAiCooldownUntil,
                      moodLog>>
     ELSE \E c \in {analyzeChatSliceCall(pendingMessages, openaiApiKey,
                                         moodAiCooldownUntil, workerNow')} :
            IF c.remote
            THEN /\ pendingMessages' = << >>
                 /\ llmProcessing' = TRUE
                 /\ moodBatch' = [messages |-> pendingMessages, pc |-> "remote"]
                 /\ moodAiCooldownUntil' = c.cooldownUntil
                 /\ moodLog' = [moodLog EXCEPT !.requests = @ \cup {workerNow'}]
            ELSE /\ moodAiCooldownUntil' = moodThen(c.cooldownUntil)
                 /\ pendingMessages' = IF openaiApiKey THEN capBuffered(pendingMessages)
                                       ELSE << >>
                 /\ UNCHANGED <<llmProcessing, moodBatch, moodLog>>
  /\ lastOp' = "llmInterval"
  /\ UNCHANGED laterVars
  /\ UNCHANGED <<workerVars, routeVars, handlers, startingSession,
                 chatToneAiCooldownUntil, openaiApiKey, toneCalls>>

\* generateObject settles for the running analysis
MoodReturns(outcome) ==
  /\ llmProcessing
  /\ moodBatch.pc = "remote"
  /\ CASE outcome = "object" ->
            \* .then: the result is posted to the live feed
            /\ moodAiCooldownUntil' = moodThen(moodAiCooldownUntil)
            /\ moodBatch' = [moodBatch EXCEPT !.pc = "posting"]
            /\ UNCHANGED <<pendingMessages, llmProcessing, moodLog>>
       [] outcome = "noObject" ->
            \* .then with null: the batch goes back to the buffer
            /\ moodAiCooldownUntil' = moodThen(moodAiCooldownUntil)
            /\ pendingMessages' = capBuffered(moodBatch.messages \o pendingMessages)
            /\ llmProcessing' = FALSE
            /\ moodBatch' = NoMoodBatch
            /\ UNCHANGED moodLog
       [] outcome = "quota" ->
            \* .catch: the breaker opens, the buffer is dropped
            /\ moodAiCooldownUntil' = workerNow + AI_QUOTA_COOLDOWN_MS
            /\ pendingMessages' = << >>
            /\ llmProcessing' = FALSE
            /\ moodBatch' = NoMoodBatch
            /\ moodLog' = [moodLog EXCEPT !.quotas = @ \cup {workerNow}]
       [] OTHER ->
            \* .catch: the batch goes back to the buffer
            /\ pendingMessages' = capBuffered(moodBatch.messages \o pendingMessages)
            /\ llmProcessing' = FALSE
            /\ moodBatch' = NoMoodBatch
            /\ UNCHANGED <<moodAiCooldownUntil, moodLog>>
  /\ lastOp' = "moodReturns"
  /\ UNCHANGED laterVars
  /\ UNCHANGED <<workerVars, routeVars, handlers, startingSession,
                 chatToneAiCooldownUntil, workerNow, openaiApiKey, toneCalls, nTicks>>

\* the live-feed posts of the .then callback are through, or one of them threw
MoodDelivered(ok) ==
  /\ llmProcessing
  /\ moodBatch.pc = "posting"
  /\ pendingMessages' = IF ok THEN pendingMessages
                        ELSE capBuffered(moodBatch.messages \o pendingMessages)
  /\ llmProcessing' = FALSE
  /\ moodBatch' = NoMoodBatch
  /\ lastOp' = "moodDelivered"
  /\ UNCHANGED laterVars
  /\ UNCHANGED <<workerVars, routeVars, handlers, startingSession,
                 chatToneAiCooldownUntil, workerNow, openaiApiKey, toneCalls,
                 moodAiCooldownUntil, moodLog, nTicks>>

MoodNext ==
  \/ OnMessage("ann", 20000, 0)
  \/ LlmInterval
  \/ \E outcome \in MoodOutcomes : MoodReturns(outcome)
  \/ \E ok \in BOOLEAN : MoodDelivered(ok)
  \/ \E t \in WorkerTimes : WorkerTick(t)

MoodSpec == WorkerInit /\ [][MoodNext]_vars

(* --------------------------- malformed records ------------------------- *)
\* instance.on("message") for an event whose tmi-sent-ts is not a number:
\* Number.parseInt gives NaN, and the handler goes on as for any event.  The
\* record is not entered in `ingested`, which keeps the well-formed records.
OnMalformedMessage(a) ==
  /\ nIngest < MaxIngest
  /\ \E r \in {ingestNaN(IF activeStreamId THEN aggregator ELSE reset,
                         [id |-> nIngest + 1, timestamp |-> NaN, authorHash |-> a,
                          sentiment |-> 0])} :
       /\ aggregator' = r.agg
       /\ snapshot' = r.snapshot
  /\ prevSnapshot' = IF activeStreamId THEN snapshot ELSE NoSnapshot
  /\ activeStreamId' = TRUE
  /\ sessionStartedAt' = IF activeStreamId THEN sessionStartedAt ELSE NaN
  /\ ingested' = IF activeStreamId THEN ingested ELSE << >>
  /\ spikes' = IF activeStreamId THEN spikes ELSE << >>
  /\ nIngest' = nIngest + 1
  /\ pendingMessages' =
       Append(IF activeStreamId THEN pendingMessages ELSE << >>,
              [id |-> nIngest + 1, author |-> a, text |-> "", timestamp |-> NaN,
               tone |-> "unknown"])
  /\ lastOp' = "malformed"
  /\ UNCHANGED otherVars
  /\ UNCHANGED <<routeVars, handlers, startingSession, chatToneAiCooldownUntil,
                 workerNow, openaiApiKey, toneCalls>>

MalformedNext ==
  \/ \E a \in Authors, d \in {20000, 100000} : OnMessage(a, d, 0)
  \/ \E a \in Authors : OnMalformedMessage(a)
  \/ EndIngestionSession

MalformedSpec == Init /\ [][MalformedNext]_vars

(* ------------------------- dashboard alert polling --------------------- *)
\* part_014 (dashboard) and POST /api/coach-summary as the dashboard's
\* requests drive it.  A cycle is one request: sent, evaluated by the route
\* (suspended on generateText when an API key is configured), answered,
\* applied by the dashboard.
ALERT_FETCH_INTERVAL_MS == 1500
ALERT_HISTORY_WINDOW_MS == 120000
\* the instants of the dashboard runs: one timer period after T0, and past
\* the history window
DashTimes == {T0 + 5000, T0 + 135000}
\* chat messages a page receives
MaxChat == 2

\* the alert cycle suspends on generateText: a batch to evaluate, an API key,
\* and the breaker closed or expired
suspendsOnAi(payload, apiKey, aiCooldownUntil, now) ==
  /\ payload.messages # << >>
  /\ apiKey
  /\ ~(aiCooldownUntil # 0 /\ now < aiCooldownUntil)

\* POST up to the await of generateText: the author memory pruned, the
\* detectors run against the module-level maps
postUntilAi(sys, payload, now) ==
  runDetectors(Context(payload),
               EmptyEvaluation(sys.cooldowns, pruneAuthorMemory(sys.memory, now)))

\* POST from the return of generateText on, against the module-level state
\* sys as it is then; st holds the request's own heuristicAlerts
postFromAi(sys, payload, st, reply, now) ==
  afterSort(Context(payload), [st EXCEPT !.cooldowns = sys.cooldowns],
            rememberAll(sys.memory, Context(payload).classifiedMessages),
            SortAlerts(st.alerts),
            aiAlertOf(0, TRUE, reply, now, Context(payload)),
            IF reply = QuotaError THEN now + AI_COOLDOWN_MS ELSE sys.aiCooldownUntil)

\* sorted.sort((a, b) => b.updatedAt - a.updatedAt), stable
RECURSIVE InsertByUpdatedAt(_, _)
InsertByUpdatedAt(sorted, a) ==
  IF sorted = << >> THEN <<a>>
  ELSE IF sorted[Len(sorted)].updatedAt >= a.updatedAt
       THEN Append(sorted, a)
       ELSE Append(InsertByUpdatedAt(SubSeq(sorted, 1, Len(sorted) - 1), a),
                   sorted[Len(sorted)])

RECURSIVE sortByUpdatedAt(_)
sortByUpdatedAt(alerts) ==
  IF alerts = << >> THEN << >>
  ELSE InsertByUpdatedAt(sortByUpdatedAt(SubSeq(alerts, 1, Len(alerts) - 1)),
                         alerts[Len(alerts)])

\* dedupedByMessage: the first alert of each message
RECURSIVE firstOfEachMessage(_, _)
firstOfEachMessage(alerts, seen) ==
  IF alerts = << >> THEN << >>
  ELSE IF Head(alerts).message \in seen
       THEN firstOfEachMessage(Tail(alerts), seen)
       ELSE <<Head(alerts)>>
              \o firstOfEachMessage(Tail(alerts), seen \cup {Head(alerts).message})

windowFiltered(alert, updateTime) ==
  updateTime - alert.updatedAt <= ALERT_HISTORY_WINDOW_MS

\* the updater passed to setAlerts.  An alert of the route carries tone,
\* priority, a numeric updatedAt and the id `${base}-${updatedAt}`, which
\* normalisation keeps; equal ids have equal updatedAt, so dedupedMap keeps the
\* first alert of each id.
mergeAlerts(previous, alerts, updateTime, effectiveStatus) ==
  LET normalizedAlerts == SelectSeq(alerts, LAMBDA a : a.message.text # "")
      combined == SelectSeq(normalizedAlerts \o previous,
                            LAMBDA a : windowFiltered(a, updateTime))
      sorted == sortByUpdatedAt(uniqueById(combined, {}))
      adjusted == SelectSeq(sorted, LAMBDA a : ~(a.message = calmAlertMessage
                                                /\ effectiveStatus # "listening"))
  IN firstOfEachMessage(adjusted, {})

NoFetchState == EmptyEvaluation(NoCooldowns, NoMemory)

\* fetchAlerts(force) of dashboard d up to its await of fetch; ds is the
\* dashboards' state when it is called
fetchAlerts(d, force, ds, profile) ==
  IF \/ ds[d].alertsFetchInFlight
     \/ ~force /\ clock - ds[d].lastAlertsFetchAt < ALERT_FETCH_INTERVAL_MS
  THEN /\ dashboards' = ds
       /\ UNCHANGED <<fetches, nCycles>>
  ELSE /\ dashboards' = [ds EXCEPT ![d].alertsFetchInFlight = TRUE]
       /\ fetches' = Append(fetches,
                            [dash |-> d, pc |-> "sent",
                             payload |-> [messages |-> SortByTimestamp(ds[d].chat),
                                          metrics |-> profile.metrics,
                                          baseline |-> profile.baseline,
                                          startedAt |-> SessionStart],
                             st |-> NoFetchState, alerts |-> << >>])
       /\ nCycles' = nCycles + 1

\* handleUpdate for a chat message of the live feed, and the effect on
\* state.chat.length that follows the render: fetchAlerts()
ChatArrives(d, author, text, profile) ==
  /\ nCycles < MaxCycles
  /\ Len(dashboards[d].chat) < MaxChat
  /\ fetchAlerts(d, FALSE,
                 [dashboards EXCEPT ![d].chat =
                    Append(@, [author |-> author, text |-> text, tone |-> "",
                               timestamp |-> clock])],
                 profile)
  /\ lastOp' = "chat"
  /\ UNCHANGED <<alertCooldowns, sessionAuthorMemory, coachAiCooldownUntil, clock,
                 response, solo, dashLog>>
  /\ UNCHANGED <<workerVars, handlerVars, moodVars, twinVars, applied>>

\* the interval of the polling effect: fetchAlerts(true)
TimerFires(d, profile) ==
  /\ nCycles < MaxCycles
  /\ fetchAlerts(d, TRUE, dashboards, profile)
  /\ lastOp' = "timer"
  /\ UNCHANGED <<alertCooldowns, sessionAuthorMemory, coachAiCooldownUntil, clock,
                 response, solo, dashLog>>
  /\ UNCHANGED <<workerVars, handlerVars, moodVars, twinVars, applied>>

\* another cycle is suspended on its AI call
OtherSuspended(i) == \E j \in 1..Len(fetches) : j # i /\ fetches[j].pc = "ai"

\* POST for request i, up to its await of generateText or, when it does not
\* call the model, to its response
RouteBegins(i, apiKey) ==
  /\ i \in 1..Len(fetches)
  /\ fetches[i].pc = "sent"
  /\ IF suspendsOnAi(fetches[i].payload, apiKey, coachAiCooldownUntil, clock)
     THEN \E st \in {postUntilAi([cooldowns |-> alertCooldowns,
                                  memory |-> sessionAuthorMemory],
                                 fetches[i].payload, clock)} :
            /\ alertCooldowns' = st.cooldowns
            /\ sessionAuthorMemory' = st.memory
            /\ coachAiCooldownUntil' = 0
            /\ fetches' = [fetches EXCEPT ![i].pc = "ai", ![i].st = st]
            /\ dashLog' = [dashLog EXCEPT !.reentered =
                             @ \/ (OtherSuspended(i) /\ st.cooldowns # alertCooldowns)]
     ELSE \E r \in {POST([cooldowns |-> alertCooldowns, memory |-> sessionAuthorMemory,
                          aiCooldownUntil |-> coachAiCooldownUntil],
                         fetches[i].payload, apiKey, NoAi, clock)} :
            /\ alertCooldowns' = r.cooldowns
            /\ sessionAuthorMemory' = r.memory
            /\ coachAiCooldownUntil' = r.aiCooldownUntil
            /\ fetches' = [fetches EXCEPT ![i].pc = "replied", ![i].alerts = r.alerts]
            /\ dashLog' = [dashLog EXCEPT !.reentered =
                             @ \/ (OtherSuspended(i) /\ r.cooldowns # alertCooldowns)]
  /\ lastOp' = "routeBegins"
  /\ UNCHANGED <<clock, response, solo, nCycles, dashboards>>
  /\ UNCHANGED <<workerVars, handlerVars, moodVars, twinVars, applied>>

\* generateText returns (or throws) for request i: POST runs to its response
AiReturns(i, reply) ==
  /\ i \in 1..Len(fetches)
  /\ fetches[i].pc = "ai"
  /\ \E r \in {postFromAi([cooldowns |-> alertCooldowns, memory |-> sessionAuthorMemory,
                           aiCooldownUntil |-> coachAiCooldownUntil],
                          fetches[i].payload, fetches[i].st, reply, clock)} :
       /\ alertCooldowns' = r.cooldowns
       /\ sessionAuthorMemory' = r.memory
       /\ coachAiCooldownUntil' = r.aiCooldownUntil
       /\ fetches' = [fetches EXCEPT ![i].pc = "replied", ![i].alerts = r.alerts,
                                     ![i].st = NoFetchState]
       /\ dashLog' = [dashLog EXCEPT !.reentered =
                        @ \/ (OtherSuspended(i) /\ r.cooldowns # alertCooldowns)]
  /\ lastOp' = "aiReturns"
  /\ UNCHANGED <<clock, response, solo, nCycles, dashboards>>
  /\ UNCHANGED <<workerVars, handlerVars, moodVars, twinVars, applied>>

\* fetch resolves in dashboard d for request i: fetchAlerts from its await to
\* its end, the finally block included
AlertsArrive(i, ok) ==
  /\ i \in 1..Len(fetches)
  /\ fetches[i].pc = "replied"
  /\ LET d == fetches[i].dash
         fingerprint == [set |-> TRUE, text |-> fetches[i].alerts]
         changed == ok /\ fingerprint # dashboards[d].alertsFingerprint
     IN /\ dashboards' =
             [dashboards EXCEPT
                ![d].alertsFingerprint = IF changed THEN fingerprint ELSE @,
                ![d].alerts = IF changed
                              THEN mergeAlerts(@, fetches[i].alerts, clock, "listening")
                              ELSE @,
                ![d].alertsFetchInFlight = FALSE,
                ![d].lastAlertsFetchAt = clock]
        /\ dashLog' =
             [dashLog EXCEPT
                !.completed = d,
                !.dropped = IF changed
                            THEN @ \cup {AlertId(dashboards[d].alerts[k]) :
                                           k \in {n \in 1..Len(dashboards[d].alerts) :
                                                    ~windowFiltered(dashboards[d].alerts[n],
                                                                    clock)}}
                            ELSE @]
  /\ fetches' = [fetches EXCEPT ![i].pc = "done",
                                ![i].payload = [@ EXCEPT !.messages = << >>],
                                ![i].alerts = << >>]
  /\ lastOp' = IF ok THEN "alertsArrive" ELSE "alertsFailed"
  /\ UNCHANGED <<alertCooldowns, sessionAuthorMemory, coachAiCooldownUntil, clock,
                 response, solo, nCycles>>
  /\ UNCHANGED <<workerVars, handlerVars, moodVars, twinVars, applied>>

\* time passes
DashTick(t) ==
  /\ t > clock
  /\ clock' = t
  /\ lastOp' = "tick"
  /\ UNCHANGED <<alertCooldowns, sessionAuthorMemory, coachAiCooldownUntil,
                 response, solo, nCycles, dashVars>>
  /\ UNCHANGED <<workerVars, handlerVars, moodVars, twinVars, applied>>

\* two pages of one channel's dashboard against a route with an API key
ReentryNext ==
  \/ \E d \in Dashboards : ChatArrives(d, "ann", SpamText, Busy)
  \/ \E d \in Dashboards : TimerFires(d, Busy)
  \/ \E i \in 1..MaxCycles : RouteBegins(i, TRUE)
  \/ \E i \in 1..MaxCycles, reply \in {AiHype, QuotaError} : AiReturns(i, reply)
  \/ \E i \in 1..MaxCycles : AlertsArrive(i, TRUE)
  \/ DashTick(T0 + 5000)

ReentrySpec == Init /\ [][ReentryNext]_vars

\* one page against a route without an API key
DashboardNext ==
  \/ \E text \in {SpamText, "you are trash"}, profile \in {Quiet, Busy} :
       ChatArrives("tab1", "ann", text, profile)
  \/ \E profile \in {Quiet, Busy} : TimerFires("tab1", profile)
  \/ \E i \in 1..MaxCycles : RouteBegins(i, FALSE)
  \/ \E i \in 1..MaxCycles, ok \in BOOLEAN : AlertsArrive(i, ok)
  \/ \E t \in DashTimes : DashTick(t)

DashboardSpec == Init /\ [][DashboardNext]_vars

(* ----------------------------- long sessions --------------------------- *)
\* chat events far enough apart for the accumulators' elapsed time to reach
\* its cap, and events delivered out of order
LongDeltas == {-30000, 20000, 2200000}

LongNext ==
  \/ \E a \in Authors, d \in LongDeltas : OnMessage(a, d, 0)
  \/ EndIngestionSession

LongSpec == Init /\ [][LongNext]_vars

(* ---------------------------- two aggregators -------------------------- *)
\* The message handler with a second MetricsAggregator beside the worker's: a
\* chat event is ingested by the worker's aggregator alone while the second
\* has not started, or by both.  The second sees a suffix of the history.
TwinDeltas == {20000, 700000}

TwinMessage(a, d, both) ==
  /\ nIngest < MaxIngest
  /\ both \/ twin = reset
  /\ \E record \in {[id |-> nIngest + 1, timestamp |-> lastDelivered + d,
                     authorHash |-> a, sentiment |-> 0]} :
       /\ \E r \in {ingest(IF activeStreamId THEN aggregator ELSE reset, record)} :
            /\ aggregator' = r.agg
            /\ snapshot' = r.snapshot
            /\ spikes' = IF r.snapshot.event # NoEvent
                         THEN Append(spikes, r.snapshot.event) ELSE spikes
       /\ IF both
          THEN \E r \in {ingest(twin, record)} :
                 /\ twin' = r.agg
                 /\ twinLog' = [snapshot |-> r.snapshot,
                                sameBuffer |-> aggregator.messages = twin.messages]
          ELSE /\ twin' = twin
               /\ twinLog' = [twinLog EXCEPT !.sameBuffer = FALSE]
       /\ sessionStartedAt' = IF activeStreamId THEN sessionStartedAt ELSE record.timestamp
       /\ ingested' = Append(ingested, record)
       /\ pendingMessages' = Append(pendingMessages,
                                    [id |-> record.id, author |-> a, text |-> "",
                                     timestamp |-> record.timestamp, tone |-> "unknown"])
  /\ prevSnapshot' = snapshot
  /\ activeStreamId' = TRUE
  /\ nIngest' = nIngest + 1
  /\ lastOp' = IF activeStreamId THEN "ingest" ELSE "start"
  /\ UNCHANGED <<moodVars, dashVars, applied>>
  /\ UNCHANGED <<routeVars, handlers, startingSession, chatToneAiCooldownUntil,
                 workerNow, openaiApiKey, toneCalls>>

TwinNext ==
  \E a \in Authors, d \in TwinDeltas, both \in BOOLEAN : TwinMessage(a, d, both)

TwinSpec == Init /\ [][TwinNext]_vars

(* --------------------------- dynamic cooldowns ------------------------- *)
\* the base cooldowns the detectors pass (milliseconds) and signal
\* intensities (Milli): null, negative, zero, below, inside and above the
\* clamp, either side of the point where the floor takes over
CooldownBases == {DEFAULT_ALERT_COOLDOWN_MS, 45000, 90000}
Intensities == {NullNum, -500, 0, 250, 500, 1000, 2333, 2334, 4000, 5000}

\* a detector computes the cooldown of its alert, and of a stronger signal
ComputeCooldown(base, weaker, stronger) ==
  /\ applied' = [fn |-> "computeDynamicCooldown", base |-> base,
                 weaker |-> weaker, stronger |-> stronger,
                 atWeaker |-> computeDynamicCooldown(base, weaker),
                 atStronger |-> computeDynamicCooldown(base, stronger)]
  /\ lastOp' = "cooldown"
  /\ UNCHANGED <<workerVars, routeVars, handlerVars, moodVars, dashVars, twinVars>>

CooldownNext ==
  \E base \in CooldownBases, weaker \in Intensities, stronger \in Intensities :
    ComputeCooldown(base, weaker, stronger)

CooldownSpec == Init /\ [][CooldownNext]_vars

(* ------------------------------ busy chats ----------------------------- *)
\* a chat in which most detectors find something: hostile, spam, laughter,
\* support, suggestions and hype from new chatters, in a surge
Crowded == <<Chat("bob", "you are trash", 6000), Chat("ann", SpamText, 5000),
             Chat("cat", "lol", 4000), Chat("dan", "gg", 3000),
             Chat("eve", "maybe try again", 2000), Chat("fay", "maybe try again", 1000),
             Chat("gus", "pog", 0)>>
Audience(n) == [metrics |-> [messageRate |-> 20, uniqueChatters |-> n, newcomers |-> 2,
                             sentiment |-> 0, trend |-> 0],
                baseline |-> BaselineOf(NotReady)]
BudgetRequests ==
  { Request(Crowded, 0, Audience(1), FALSE, NoAi),
    Request(Crowded, 0, Audience(3), FALSE, NoAi),
    Request(Crowded, 0, Audience(3), TRUE, AiHype),
    Request(Crowded, 0, Audience(16), FALSE, NoAi),
    Request(HypeChat, 0, Audience(3), FALSE, NoAi),
    Request(<< >>, 0, Quiet, FALSE, NoAi) }

BudgetNext ==
  \E req \in BudgetRequests, dt \in Steps : Evaluate("A", req, SessionStart, dt)

BudgetSpec == Init /\ [][BudgetNext]_vars

(* ----------------------------- cooling chats --------------------------- *)
\* the message rate falling (trend -30, five messages a minute), baseline
\* not ready
Fading == [metrics |-> [messageRate |-> 5, uniqueChatters |-> 2, newcomers |-> 0,
                         sentiment |-> 0, trend |-> -30],
            baseline |-> BaselineOf(NotReady)]
BoringOnce == <<Chat("bob", "this is boring", 0)>>
MomentumRequests ==
  { Request(HelloChat, 0, Fading, FALSE, NoAi),
    Request(HelloChat, 0, Quiet, FALSE, NoAi),
    Request(ToxicOnce, 0, Fading, FALSE, NoAi),
    Request(BoringOnce, 0, Fading, FALSE, NoAi),
    Request(HypeChat, 0, Fading, FALSE, NoAi) }

MomentumNext ==
  \E req \in MomentumRequests, dt \in Steps : Evaluate("A", req, SessionStart, dt)

MomentumSpec == Init /\ [][MomentumNext]_vars

(* ------------------------------ surging chats -------------------------- *)
\* a message the worker classified as sarcastic
Sarcasm == <<Chat("ann", "pog", 1000),
             [Chat("bob", "great stream", 0) EXCEPT !.tone = "sarcastic"]>>
SmallTalk == <<Chat("ann", "hello there", 1000), Chat("bob", "ok", 0)>>
BoringThenHype == <<Chat("bob", "this is boring", 1000), Chat("ann", "pog", 0)>>
SurgeRequests ==
  { Request(HypeChat, 0, Busy, FALSE, NoAi),
    Request(SmallTalk, 0, Busy, FALSE, NoAi),
    Request(ToxicThenHype, 0, Busy, FALSE, NoAi),
    Request(BoringThenHype, 0, Busy, FALSE, NoAi),
    Request(Sarcasm, 0, Busy, FALSE, NoAi),
    Request(HypeChat, 0, Sparse, FALSE, NoAi) }

SurgeNext ==
  \E req \in SurgeRequests, dt \in Steps : Evaluate("A", req, SessionStart, dt)

SurgeSpec == Init /\ [][SurgeNext]_vars

(* ------------------------- polls without chat -------------------------- *)
\* polls of a dashboard whose chat has been silent, with and without a key for
\* the language model, between polls that carry a message
EmptyRequests ==
  { Request(<< >>, 0, Quiet, FALSE, NoAi),
    Request(<< >>, 0, Busy, TRUE, AiHype),
    Request(<< >>, 0, Quiet, TRUE, QuotaError),
    Request(HelloChat, 0, Quiet, FALSE, NoAi),
    Request(SpamOnce, 0, Busy, TRUE, AiHype) }
EmptyNext ==
  \E req \in EmptyRequests, dt \in Steps : Evaluate("A", req, SessionStart, dt)

EmptySpec == Init /\ [][EmptyNext]_vars

(* ------------------------- one key, many candidates -------------------- *)
MaxTries == 5
\* steps between the timestamps of consecutive candidates of the key; a
\* candidate carries the timestamp of the latest message of its batch, which
\* can be older than the previous one
TrySteps == {-20000, 0, 29999, DEFAULT_ALERT_COOLDOWN_MS}
TriedKey == Key("chat-hype", "", 0)
NoRun == [fn |-> "shouldEmitAlert", run |-> << >>, blocked |-> FALSE]

\* a detector offers a candidate for the key: shouldEmitAlert with the
\* default cooldown.  applied.run is the emissions of the key since the last
\* one that came a full cooldown after its predecessor.
TryEmit(priority, dt) ==
  /\ nCycles < MaxTries
  /\ \E r \in {shouldEmitAlert(alertCooldowns, TriedKey, clock + dt, priority,
                                DEFAULT_ALERT_COOLDOWN_MS)} :
       \E run \in {IF applied.fn = "shouldEmitAlert" THEN applied.run ELSE << >>} :
         /\ alertCooldowns' = r.cooldowns
         /\ applied' =
              [fn |-> "shouldEmitAlert",
               run |-> IF ~r.emit THEN run
                       ELSE IF /\ run # << >>
                               /\ clock + dt - run[Len(run)].timestamp
                                    < DEFAULT_ALERT_COOLDOWN_MS
                       THEN Append(run, [timestamp |-> clock + dt, priority |-> priority])
                       ELSE <<[timestamp |-> clock + dt, priority |-> priority]>>,
               blocked |-> ~r.emit]
  /\ clock' = clock + dt
  /\ nCycles' = nCycles + 1
  /\ lastOp' = "try"
  /\ UNCHANGED <<workerVars, handlerVars, moodVars, dashVars, twinVars,
                 sessionAuthorMemory, coachAiCooldownUntil, response, solo>>

TryNext == \E priority \in Priorities, dt \in TrySteps : TryEmit(priority, dt)

TrySpec == Init /\ [][TryNext]_vars

(* --------------------------- the chat disconnects --------------------- *)
\* instance.on("disconnected"): endIngestionSession is called.  With no
\* session it resets at once; with a session it first awaits the endSession
\* mutation.  The callback is kept among the handlers, its pc "endSession"
\* while it waits.
Disconnected ==
  /\ \A i \in 1..Len(handlers) : handlers[i].path # "disconnected"
  /\ IF activeStreamId
     THEN /\ handlers' = Append(handlers,
                                [Handler(workerNow, "", "") EXCEPT
                                   !.pc = "endSession", !.path = "disconnected"])
          /\ UNCHANGED <<aggregator, pendingMessages, snapshot, prevSnapshot, ingested,
                         spikes>>
     ELSE /\ handlers' = Append(handlers,
                                [Handler(workerNow, "", "") EXCEPT
                                   !.pc = "done", !.path = "disconnected"])
          /\ aggregator' = reset
          /\ pendingMessages' = << >>
          /\ snapshot' = NoSnapshot
          /\ prevSnapshot' = NoSnapshot
          /\ ingested' = << >>
          /\ spikes' = << >>
  /\ lastOp' = IF activeStreamId THEN "disconnected" ELSE "reset"
  /\ UNCHANGED otherVars
  /\ UNCHANGED <<activeStreamId, sessionStartedAt, nIngest, routeVars, startingSession,
                 chatToneAiCooldownUntil, workerNow, openaiApiKey, toneCalls>>

\* endIngestionSession: the endSession mutation returns or throws (the error
\* is logged); the session is cleared and the aggregator reset
EndSessionReturns(i) ==
  /\ i \in 1..Len(handlers)
  /\ handlers[i].pc = "endSession"
  /\ activeStreamId' = FALSE
  /\ sessionStartedAt' = Null
  /\ aggregator' = reset
  /\ pendingMessages' = << >>
  /\ snapshot' = NoSnapshot
  /\ prevSnapshot' = NoSnapshot
  /\ ingested' = << >>
  /\ spikes' = << >>
  /\ handlers' = [handlers EXCEPT ![i].pc = "done"]
  /\ lastOp' = "reset"
  /\ UNCHANGED otherVars
  /\ UNCHANGED <<nIngest, routeVars, startingSession, chatToneAiCooldownUntil, workerNow,
                 openaiApiKey, toneCalls>>

DisconnectNext ==
  \/ \E a \in Authors, text \in WorkerTexts, authMode \in AuthModes :
       Receive(a, text, authMode)
  \/ \E i \in 1..(MaxEvents + 1), ok \in BOOLEAN : TokenReturns(i, ok)
  \/ \E i \in 1..(MaxEvents + 1), ok \in BOOLEAN : StartSessionReturns(i, ok)
  \/ \E i \in 1..(MaxEvents + 1), ok \in BOOLEAN : PostResetReturns(i, ok)
  \/ \E i \in 1..(MaxEvents + 1) : PostSessionReturns(i)
  \/ \E i \in 1..(MaxEvents + 1), outcome \in RemoteOutcomes : ClassifierReturns(i, outcome)
  \/ \E i \in 1..(MaxEvents + 1) : PersistReturns(i)
  \/ Disconnected
  \/ \E i \in 1..(MaxEvents + 1) : EndSessionReturns(i)

DisconnectSpec == WorkerInit /\ [][DisconnectNext]_vars

(* ------------------------- chat lines with emotes ---------------------- *)
MaxLines == 4
Line(words, tags) == [words |-> words, tags |-> tags]
Tag(id, word) == [id |-> id, word |-> word]
ChatLines ==
  { Line(<<"alpha", "beta", "gamma", "delta", "kilo">>, << >>),
    Line(<<"epsilon", "zeta", "eta", "alpha">>, << >>),
    Line(<<"pogHype", "clap1", "clap2", "clap3">>,
         <<Tag("e1", 1), Tag("e2", 2), Tag("e3", 3), Tag("e4", 4)>>),
    Line(<<"clap4", "clap5", "clap6", "pogHype">>,
         <<Tag("e5", 1), Tag("e6", 2), Tag("e7", 3), Tag("e1", 4)>>),
    Line(<<"POGHYPE", "alpha", "Kappa!", "gg", "nice!">>, << >>) }
LineDeltas == {20000, 700000}

\* instance.on("message") for a chat line: tokens and emotes extracted, the
\* record ingested
OnChatLine(a, d, line) ==
  /\ nIngest < MaxLines
  /\ \E record \in {[id |-> nIngest + 1, timestamp |-> lastDelivered + d,
                      authorHash |-> a, sentiment |-> 0,
                      tokens |-> tokenizeMessage(line.words),
                      emotes |-> allEmotes(line.words, line.tags)]} :
       Accept(record, ingestRanked(met, record))

RankNext ==
  \/ \E d \in LineDeltas, line \in ChatLines : OnChatLine("ann", d, line)
  \/ EndIngestionSession

RankSpec == Init /\ [][RankNext]_vars

(* ----------------------- a baseline fed by hand ------------------------ *)
\* samples fed to one baseline, the time steps between them, the number of
\* samples after which the value fed no longer changes, and the accumulated
\* time after which feeding stops
FedValues == {0, 1, 300}
FedSteps == {100000, 700000, 2200000}
MaxDisturb == 2
FeedHorizon == 2500000

\* the first sample of a baseline (dtSeconds = 0)
SeedBaseline(x) ==
  /\ applied.fn # "updateBaseline"
  /\ applied' = [fn |-> "updateBaseline",
                 state |-> updateBaseline(createBaselineAccumulator, x, 0),
                 value |-> x, fed |-> 0, feeds |-> 0,
                 gapShort |-> 0, gapLong |-> 0, variance |-> 0]
  /\ lastOp' = "seed"
  /\ UNCHANGED <<workerVars, routeVars, handlerVars, moodVars, dashVars, twinVars>>

\* a later sample: fed counts the time over which the value has been the
\* same, gapShort / gapLong / variance are the distance of the averages from
\* that value, and the variance, when the value was fed first
FeedBaseline(v, dt) ==
  /\ applied.fn = "updateBaseline"
  /\ applied.fed < FeedHorizon
  /\ v # applied.value => applied.feeds < MaxDisturb
  /\ applied' =
       IF v = applied.value
       THEN [applied EXCEPT !.state = updateBaseline(applied.state, v, dt),
                            !.fed = applied.fed + dt,
                            !.feeds = Min(applied.feeds + 1, MaxDisturb)]
       ELSE [fn |-> "updateBaseline",
             state |-> updateBaseline(applied.state, v, dt),
             value |-> v, fed |-> dt,
             feeds |-> Min(applied.feeds + 1, MaxDisturb),
             gapShort |-> Abs(applied.state.short - v * Milli),
             gapLong |-> Abs(applied.state.long - v * Milli),
             variance |-> applied.state.variance]
  /\ lastOp' = "feed"
  /\ UNCHANGED <<workerVars, routeVars, handlerVars, moodVars, dashVars, twinVars>>

ConvergeNext ==
  \/ \E x \in FedValues : SeedBaseline(x)
  \/ \E v \in FedValues, dt \in FedSteps : FeedBaseline(v, dt)

ConvergeSpec == Init /\ [][ConvergeNext]_vars

(* ------------------------- a long-running stream ---------------------- *)
MaxHistory == 44
\* a chat of pairs: a message after 700 s of silence, and a second one in the
\* same instant
Cadence(n) == IF n % 2 = 0 THEN 700000 ELSE 0

OnPairedMessage(a) ==
  /\ nIngest < MaxHistory
  /\ Deliver(a, Cadence(nIngest), 0)

HistoryNext ==
  \/ OnPairedMessage("ann")
  \/ EndIngestionSession

HistorySpec == Init /\ [][HistoryNext]_vars

(* ------------------------- aggregator properties ----------------------- *)
\* the state was produced by an ingest (the first of a session included)
Ingested == lastOp \in {"start", "ingest"}
LastRecord == ingested[Len(ingested)]
RateBaseline == snapshot.baseline["messageRate"]

\* C6: between two resets, any two SpikeEvents are more than 20 000 ms apart,
\* so qualifying samples less than (or exactly) 20 s after a spike, or with an
\* earlier timestamp than the last spike, add no SpikeEvent.
C6_SpikeRearm ==
  \A i, j \in 1..Len(spikes) :
    i < j => spikes[j].timestamp - spikes[i].timestamp > SPIKE_REARM_MS

\* a ratio-qualifying sample exactly 20 s after (or before) the last spike
\* that produced no event, and a session holding two spikes
C6_Witness ==
  /\ Ingested
  /\ snapshot.event = NoEvent
  /\ spikeQualifies(snapshot.messageRate, RateBaseline.long, RateBaseline.ready)
  /\ spikes # << >>
  /\ LastRecord.timestamp - aggregator.lastEventAt <= SPIKE_REARM_MS

\* C7: an ingest returns a SpikeEvent only if the message-rate baseline long
\* value is > 0 and messageRate / long >= 1.4 when that baseline is ready in
\* the same snapshot, >= 1.8 when it is not.
C7_SpikeThreshold ==
  (Ingested /\ snapshot.event # NoEvent) =>
    /\ RateBaseline.long > 0
    /\ RateBaseline.ready => snapshot.messageRate * Milli * 10 >= 14 * RateBaseline.long
    /\ ~RateBaseline.ready => snapshot.messageRate * Milli * 10 >= 18 * RateBaseline.long

\* a spike emitted against a ready baseline
C7_Witness ==
  /\ Ingested
  /\ snapshot.event # NoEvent
  /\ RateBaseline.ready

Chatted == {ingested[i].authorHash : i \in 1..Len(ingested)}
FirstEver(a) ==
  LET k == CHOOSE i \in 1..Len(ingested) :
             /\ ingested[i].authorHash = a
             /\ \A j \in 1..(i - 1) : ingested[j].authorHash # a
  IN ingested[k].timestamp

\* C9: firstSeenAt of an author is the timestamp of the author's first-ever
\* message of the session, and newcomers counts exactly the authors whose
\* first-ever message is within the trailing 10 minutes.
C9_NewcomersFirstEver ==
  Ingested =>
    /\ \A a \in Authors :
         aggregator.firstSeen[a] # Absent => aggregator.firstSeen[a] = FirstEver(a)
    /\ snapshot.newcomers =
         Cardinality({a \in Chatted : LastRecord.timestamp - FirstEver(a) <= TEN_MINUTES})

\* timestamps of the records ingested since the last reset never decrease
InOrder == \A i \in 1..(Len(ingested) - 1) : ingested[i].timestamp <= ingested[i + 1].timestamp

\* C10: for records ingested in non-decreasing timestamp order, messageRate
\* is the number of records ingested so far that are at most 60 000 ms older
\* than the record just ingested.
C10_WindowCorrectness ==
  (Ingested /\ InOrder) =>
    snapshot.messageRate =
      Cardinality({i \in 1..Len(ingested) :
                     LastRecord.timestamp - ingested[i].timestamp <= ONE_MINUTE})

\* an in-order session where one record is exactly a minute old (counted) and
\* one where an older record has left the window
C10_Witness ==
  /\ Ingested
  /\ InOrder
  /\ Len(ingested) >= 3
  /\ \E i \in 1..Len(ingested) : LastRecord.timestamp - ingested[i].timestamp = ONE_MINUTE

(* ------------------------ alert engine properties --------------------- *)
Evaluated == lastOp = "evaluate"
Candidates == {response.candidates[i] : i \in 1..Len(response.candidates)}
\* the entry a candidate found for its key
Found(cand) == cand.before[cand.key]
Cooling(cand) == cand.key \in DOMAIN cand.before

\* C1: every candidate that went through shouldEmitAlert in the last cycle is
\* suppressed exactly when an entry exists for its key with
\* t - lastEmittedAt < cooldown and weight(p) <= weight(lastPriority)
\* (high 3 > medium 2 > low 1); a suppressed candidate leaves the whole map as
\* it was; an emitted one sets its key to (t, p) and leaves every other key as
\* it was; the calls of a cycle chain up to the map the cycle leaves behind.
C1_CooldownGate ==
  LET weight(p) == CASE p = "high" -> 3 [] p = "medium" -> 2 [] p = "low" -> 1
      n == Len(response.candidates)
  IN /\ \A cand \in Candidates :
          /\ ~cand.emitted <=>
               /\ Cooling(cand)
               /\ cand.timestamp - Found(cand).timestamp < cand.cooldownMs
               /\ weight(cand.priority) <= weight(Found(cand).priority)
          /\ ~cand.emitted => cand.after = cand.before
          /\ cand.emitted =>
               cand.after = [k \in DOMAIN cand.before \cup {cand.key} |->
                               IF k = cand.key
                               THEN [timestamp |-> cand.timestamp, priority |-> cand.priority]
                               ELSE cand.before[k]]
     /\ \A i \in 1..(n - 1) : response.candidates[i + 1].before = response.candidates[i].after
     /\ n > 0 => response.candidates[n].after = alertCooldowns

\* a cycle in which one candidate was suppressed by its key's entry while a
\* candidate of another key overwrote an older entry of its own
C1_Witness ==
  /\ Evaluated
  /\ \E c1, c2 \in Candidates :
       /\ Cooling(c1) /\ ~c1.emitted
       /\ Cooling(c2) /\ c2.emitted /\ c2.key # c1.key
       /\ c2.timestamp - Found(c2).timestamp >= c2.cooldownMs

\* C2: a candidate of priority high whose key's last emission was low or
\* medium is emitted whatever the elapsed time, and the entry then records high.
C2_PriorityEscalation ==
  \A cand \in Candidates :
    (/\ cand.priority = "high"
     /\ Cooling(cand)
     /\ Found(cand).priority \in {"low", "medium"})
    => /\ cand.emitted
       /\ cand.after[cand.key] = [timestamp |-> cand.timestamp, priority |-> "high"]

\* a high candidate emitted over a medium entry that is not older than the
\* candidate itself (elapsed <= 0)
C2_Witness ==
  /\ Evaluated
  /\ \E cand \in Candidates :
       /\ cand.priority = "high" /\ Cooling(cand)
       /\ Found(cand).priority \in {"low", "medium"}
       /\ cand.timestamp - Found(cand).timestamp <= 0
       /\ cand.emitted

\* the candidates of the last cycle that survived cooldown arbitration: the AI
\* card (if it passed) and the heuristic alerts, in the order the code joins them
Survivors == response.finalAlerts \o response.heuristicAlerts

\* C3: the alerts of a cycle (before the calm card stands in for an empty
\* list) are exactly the survivors, sorted most recent first then by priority
\* weight, deduplicated by (tone, priority, normalized message), cut to the budget.
C3_OutputIsSurvivors ==
  (Evaluated /\ ~response.empty) =>
    LET expected == uniqueByMessage(SortAlerts(Survivors), {})
    IN response.limitedAlerts
         = SubSeq(expected, 1, Min(response.alertBudget, Len(expected)))

\* C4: the alerts a cycle returns for a channel are the alerts the same
\* request returns when only that channel's own cycles came before it.
C4_ChannelIsolation ==
  Evaluated => response.alerts = response.soloAlerts

\* C5: after the reset at a session end, the aggregator is in its initial
\* state and the alert cooldowns and the author memory are empty.
C5_ResetClearsEverything ==
  lastOp = "reset" =>
    /\ aggregator = reset
    /\ alertCooldowns = NoCooldowns
    /\ sessionAuthorMemory = NoMemory

(* ----------------------------- retention ------------------------------ *)
\* the latest (maximum) timestamp ingested since the last reset
MaxIngested ==
  CHOOSE t \in {ingested[i].timestamp : i \in 1..Len(ingested)} :
    \A i \in 1..Len(ingested) : ingested[i].timestamp <= t

\* C11: after every ingest no record of the buffer is more than ten minutes
\* older than the latest timestamp ingested so far in the session, also when
\* the record just ingested is earlier than one ingested before it.
C11_RetentionHorizon ==
  Ingested =>
    \A i \in 1..Len(aggregator.messages) :
      MaxIngested - aggregator.messages[i].timestamp <= TEN_MINUTES

\* a record arrived out of order after an older record had been discarded
C11_Witness ==
  /\ Ingested
  /\ LastRecord.timestamp < MaxIngested
  /\ Len(aggregator.messages) < Len(ingested)

(* -------------------------------- calm --------------------------------- *)
\* the calm cards of a response
CalmCards(resp) ==
  {resp.alerts[i].updatedAt :
     i \in {j \in 1..Len(resp.alerts) : resp.alerts[j].base.name = "status-all-calm"}}
HasCalm(resp) == CalmCards(resp) # {}

\* C12: a cycle that returns a calm alert is not followed, within the 60 s
\* calm cooldown, by a cycle that returns a calm alert again, whatever the
\* batches of the two cycles are (an empty one included).
C12_CalmOnce ==
  [][(HasCalm(response) /\ HasCalm(response')) =>
       \A t1 \in CalmCards(response), t2 \in CalmCards(response') : t2 - t1 >= 60000]_vars

\* C13: a response holds a calm alert only if no candidate survived the
\* cycle, the metrics of the request are all 0 and the session is more than
\* 90 s old.
C13_CalmOnlyWhenIdle ==
  (Evaluated /\ HasCalm(response)) =>
    /\ Survivors = << >>
    /\ response.metrics.messageRate = 0
    /\ response.metrics.uniqueChatters = 0
    /\ response.metrics.newcomers = 0
    /\ response.latest - response.startedAt > BASELINE_READY_SECONDS * 1000

(* ------------------------- detectors across cycles --------------------- *)
\* the detector a candidate comes from: the name of its cooldown key and, for
\* the keys that carry one, the author
Detector(cand) == [name |-> cand.key.name, author |-> cand.key.author]
HeuristicNames ==
  {"new-chatter", "returning-chatters", "velocity-surge-negative", "velocity-surge-positive",
   "velocity-surge-monitor", "chat-hype", "chat-laughter", "chat-support",
   "constructive-feedback", "spam-warning", "tone-dip", "momentum-drop"}

\* C14: when a detector's candidate was emitted in one cycle, a candidate of
\* the same detector and the same priority in the next cycle, stamped less
\* than the detector's cooldown away from it, is not emitted.
C14_PerDetectorCooldown ==
  [][\A c1 \in Candidates :
       \A c2 \in {response'.candidates[i] : i \in 1..Len(response'.candidates)} :
         (/\ c1.emitted
          /\ c1.key.name \in HeuristicNames
          /\ Detector(c2) = Detector(c1)
          /\ c2.priority = c1.priority
          /\ Abs(c2.timestamp - c1.timestamp) < c2.cooldownMs)
         => ~c2.emitted]_vars

(* ---------------------------- positive tone ---------------------------- *)
PositiveSpikes == {"chat-hype", "chat-laughter", "chat-support"}

\* C15: a hype, humor or support candidate is produced only in a cycle whose
\* session age is at least 30 s, whose uniqueChatters is at least 3 and whose
\* batch holds no toxic, critical or sarcastic message.
C15_PositiveGating ==
  \A cand \in Candidates :
    cand.key.name \in PositiveSpikes =>
      /\ response.latest - response.startedAt >= 30000
      /\ response.metrics.uniqueChatters >= 3
      /\ response.tones \cap {"toxic", "critical", "sarcastic"} = {}

(* ------------------------------ newcomers ------------------------------ *)
NewcomerAlerts ==
  {response.heuristicAlerts[i] :
     i \in {j \in 1..Len(response.heuristicAlerts) :
              response.heuristicAlerts[j].base.name
                \in {"new-chatter-batch", "new-chatters", "new-chatter-rolling"}}}
\* the authors an alert names, and how many it announces
Named(alert) == {alert.message.names[i] : i \in 1..Len(alert.message.names)}
Announced(alert) ==
  Len(alert.message.names) + (IF alert.message.nums = << >> THEN 0 ELSE alert.message.nums[1])

\* C16: every author named in a newcomer alert was not in the author memory
\* before the cycle and has a message of the batch within the 5-minute
\* freshness window; the priority is high for 6 or more announced authors,
\* medium for 3 or more, else low.
C16_NewcomersAreFresh ==
  \A alert \in NewcomerAlerts :
    /\ \A a \in Named(alert) :
         /\ normalizeAuthor(a) \notin DOMAIN response.memoryBefore
         /\ \E i \in 1..Len(response.messages) :
              /\ response.messages[i].author = a
              /\ response.latest - response.messages[i].timestamp <= FRESH_CHATTER_WINDOW_MS
    /\ alert.priority = IF Announced(alert) >= 6 THEN "high"
                        ELSE IF Announced(alert) >= 3 THEN "medium" ELSE "low"

(* ------------------------- the worker's handlers ----------------------- *)
\* C17: the records reach aggregator.ingest in the order in which their chat
\* events were delivered, hence with timestamps that never decrease, whatever
\* the interleaving of the handlers' awaits.
C17_OrderedIngestion ==
  \A k \in 1..(Len(ingested) - 1) :
    /\ ingested[k].id < ingested[k + 1].id
    /\ ingested[k].timestamp <= ingested[k + 1].timestamp


\* the handler of event i got as far as classifying its message: the event
\* was received while a session was active
Classifying(i) == i <= Len(handlers) /\ handlers[i].pc \in {"classify", "persist"}
IngestedEvent(i) == i <= Len(handlers) /\ handlers[i].pc = "done"

\* C18: every chat message received while a session is active is eventually
\* passed to aggregator.ingest, whether its classifier call succeeds, fails,
\* is skipped, is slow or never returns.
C18_ToneNeverBlocksIngestion ==
  \A i \in 1..MaxEvents : Classifying(i) ~> IngestedEvent(i)


(* ------------------------ the chat-tone classifier --------------------- *)
FailurePaths == {"noTone", "throws", "schema", "quota"}
Resolved(i) == i <= Len(toneCalls) /\ toneCalls[i].pc = "resolved"
\* call i was made while the breaker was open
DuringCooldown(i) ==
  toneCalls[i].cooldownUntil # 0 /\ toneCalls[i].calledAt < toneCalls[i].cooldownUntil
\* the remote call of call i failed, or call i found no API key, or it was made
\* during the quota cooldown
Unavailable(i) ==
  Resolved(i) /\ (toneCalls[i].path \in FailurePaths \/ ~openaiApiKey \/ DuringCooldown(i))
\* what classifyChatTone answers without the remote model
LocalAnswer(message, recentMessages) ==
  IF trimText(message) # "" /\ recentMatches(message, recentMessages) >= 2
  THEN ToneResult("spam", 80, "Repeated identical message")
  ELSE heuristicTone(message)

\* C19 as stated: classifyChatTone never rejects, and when the remote call
\* throws, returns no tone, fails schema validation, finds no API key or is
\* made during the quota cooldown, it resolves to exactly heuristicTone of the
\* same text, a tone with confidence in [0,1].
C19_FailureIsHeuristic ==
  \A i \in 1..MaxCalls :
    Unavailable(i) =>
      /\ toneCalls[i].result = heuristicTone(toneCalls[i].message)
      /\ toneCalls[i].result.confidence \in 0..100

\* C19 amended: in those cases classifyChatTone resolves to its local answer,
\* a tone with confidence in [0,1]: heuristicTone of the same text, except
\* that a non-empty message equal to two or more of the recent messages is
\* answered spam / 0.8 (whatever the key and the breaker); after a failed
\* remote call the answer is always heuristicTone of the text.
C19_FailureIsLocal ==
  /\ \A i \in 1..MaxCalls :
       /\ Resolved(i) => toneCalls[i].result.tone # ""
       /\ Unavailable(i) =>
            /\ toneCalls[i].result =
                 LocalAnswer(toneCalls[i].message, toneCalls[i].recentMessages)
            /\ toneCalls[i].result.confidence \in 0..100
       /\ (Resolved(i) /\ toneCalls[i].path \in FailurePaths) =>
            toneCalls[i].result = heuristicTone(toneCalls[i].message)
  /\ \A text \in ChatTexts :
       /\ heuristicTone(text).confidence \in 0..100
       /\ \A outcome \in FailurePaths :
            classifyChatToneReturn(text, outcome, chatToneAiCooldownUntil,
                                   workerNow).result = heuristicTone(text)
       /\ classifyChatToneCall(text, << >>, FALSE, chatToneAiCooldownUntil,
                               workerNow).result = heuristicTone(text)
\* a remote call failed on its quota, and a call made during the cooldown
\* repeated the recent messages
C19_Witness ==
  \E i, j \in 1..MaxCalls :
    /\ Resolved(i) /\ toneCalls[i].path = "quota"
    /\ Resolved(j) /\ DuringCooldown(j) /\ toneCalls[j].path = "repeated"

\* C20: after a call fails with a quota error at T, no remote request is
\* started before T + 15 minutes and every call made in that window is
\* answered locally, whatever the interleaving of the calls.
C20_QuotaBreaker ==
  \A i, j \in 1..MaxCalls :
    ( /\ Resolved(i) /\ toneCalls[i].path = "quota"
      /\ j <= Len(toneCalls)
      /\ toneCalls[i].settledAt < toneCalls[j].calledAt
      /\ toneCalls[j].calledAt < toneCalls[i].settledAt + CHAT_TONE_COOLDOWN_MS )
    => /\ toneCalls[j].remoteAt = Null
       /\ toneCalls[j].result = LocalAnswer(toneCalls[j].message,
                                            toneCalls[j].recentMessages)


(* --------------------------- the mood analysis -------------------------- *)
\* C21: after a mood analysis failed with a quota error at T, no remote mood
\* request is issued before T + 15 minutes, however many timer ticks find
\* pending messages in that window.
C21_MoodQuotaBreaker ==
  \A T \in moodLog.quotas, at \in moodLog.requests :
    ~(T < at /\ at < T + AI_QUOTA_COOLDOWN_MS)


(* --------------------------- malformed records -------------------------- *)
RECURSIVE CleanAggregator(_)
\* the aggregator that has ingested the first k well-formed records only
CleanAggregator(k) ==
  IF k = 0 THEN reset ELSE ingest(CleanAggregator(k - 1), ingested[k]).agg

\* C22: a record with a malformed timestamp is rejected as a single record:
\* buffer, firstSeen, baseline accumulators, last-baseline timestamp and
\* re-arm time are as if it had never arrived, and so is the snapshot of
\* every later well-formed record.
C22_MalformedRejected ==
  /\ aggregator.messages = CleanAggregator(Len(ingested)).messages
  /\ aggregator.firstSeen = CleanAggregator(Len(ingested)).firstSeen
  /\ aggregator.baselineStates = CleanAggregator(Len(ingested)).baselineStates
  /\ aggregator.lastBaselineTimestamp = CleanAggregator(Len(ingested)).lastBaselineTimestamp
  /\ aggregator.lastEventAt = CleanAggregator(Len(ingested)).lastEventAt
  /\ (Ingested /\ ingested # << >>) =>
       snapshot = ingest(CleanAggregator(Len(ingested) - 1),
                         ingested[Len(ingested)]).snapshot


(* ------------------------- alert cycle properties ---------------------- *)
\* the cycles in progress: sent and not yet applied by their dashboard
InProgress == {i \in 1..Len(fetches) : fetches[i].pc \in {"sent", "ai", "replied"}}

\* the dashboard's own guard: a page never has two requests in flight
OneFetchPerDashboard ==
  \A i, j \in InProgress : fetches[i].dash = fetches[j].dash => i = j

\* C23 (no reentrancy of alert evaluation): for the channel, at most one
\* evaluation cycle is in progress at any time, and the cooldown map is never
\* modified by one cycle while another is suspended on its AI call.
C23_NoReentrancy ==
  /\ Cardinality(InProgress) <= 1
  /\ dashLog.reentered = FALSE

\* the alerts dashboard d presents, the calm card aside
Presented(d) ==
  {a \in {dashboards[d].alerts[k] : k \in 1..Len(dashboards[d].alerts)} :
     a.message # calmAlertMessage}

\* C28 (alert expiry by age): after every completed alert poll, no alert the
\* dashboard presents is older than the two-minute history window, and no
\* alert that was dropped for age is presented again.
C28_AlertExpiry ==
  lastOp = "alertsArrive" =>
    \A a \in Presented(dashLog.completed) :
      /\ clock - a.updatedAt <= ALERT_HISTORY_WINDOW_MS
      /\ AlertId(a) \notin dashLog.dropped


(* ------------------------- baseline accumulators ----------------------- *)
ELAPSED_CAP_MS == LONG_EMA_SECONDS * 12 * 1000
\* the dt of the last update: Math.max(0.25, (now - lastBaselineTimestamp) / 1000)
LastDt ==
  Max(250, ingested[Len(ingested)].timestamp - ingested[Len(ingested) - 1].timestamp)

BufferMetrics(s) ==
  [messageRate |-> s.messageRate, sentiment |-> s.sentiment,
   uniqueChatters |-> s.uniqueChatters, newcomers |-> s.newcomers]

\* C25 (snapshot metrics are a function of the buffer): two aggregators that
\* held the same message buffer return the same messageRate, sentiment,
\* uniqueChatters and newcomers for the same ingested record, whatever
\* histories led to that buffer.
C25_FunctionOfBuffer ==
  twinLog.sameBuffer => BufferMetrics(snapshot) = BufferMetrics(twinLog.snapshot)


(* ---------------------------- dynamic cooldown ------------------------- *)
\* clamp(intensity, 0.5, 4), written out
Clamped(intensity) ==
  IF intensity < 500 THEN 500 ELSE IF intensity > 4000 THEN 4000 ELSE intensity

\* C27 (dynamic cooldown): for a positive intensity the cooldown is
\* base / (1 + clamp(intensity, 0.5, 4)), floored at 0.3 * base; for a null,
\* zero or negative intensity it is base; it lies in [0.3 * base, base] and is
\* non-increasing in the intensity.
C27_DynamicCooldown ==
  applied.fn = "computeDynamicCooldown" =>
    /\ (applied.weaker # NullNum /\ applied.weaker > 0) =>
         applied.atWeaker =
           Max((applied.base * 1000) \div (1000 + Clamped(applied.weaker)),
               (applied.base * 3) \div 10)
    /\ (applied.weaker = NullNum \/ applied.weaker <= 0) => applied.atWeaker = applied.base
    /\ applied.atWeaker * 10 >= applied.base * 3
    /\ applied.atWeaker <= applied.base
    /\ OrZero(applied.weaker) <= OrZero(applied.stronger) =>
         applied.atStronger <= applied.atWeaker

\* a stronger signal got a shorter cooldown, down to the floor
C27_Witness ==
  /\ applied.fn = "computeDynamicCooldown"
  /\ applied.weaker > 0
  /\ applied.weaker < applied.stronger
  /\ applied.atStronger < applied.atWeaker
  /\ applied.atWeaker < applied.base
  /\ applied.atStronger * 10 = applied.base * 3


(* ------------------------------ alert budget --------------------------- *)
\* audience sizes the budget is examined for
MaxAudience == 300
\* max(3, min(8, 5 + floor(log2(max(n, 1))))), by the powers of two
BudgetOf(n) == IF n < 2 THEN 5 ELSE IF n < 4 THEN 6 ELSE IF n < 8 THEN 7 ELSE 8

\* C26 (alert budget): every response carries at most
\* B = max(3, min(8, 5 + floor(log2(max(uniqueChatters, 1))))) alerts; B is
\* non-decreasing in uniqueChatters and between 3 and 8, so no response
\* carries more than 8 alerts.
C26_AlertBudget ==
  /\ \A n \in 0..MaxAudience :
       /\ alertBudget(n) = BudgetOf(n)
       /\ alertBudget(n) >= 3
       /\ alertBudget(n) <= 8
       /\ alertBudget(n) <= alertBudget(n + 1)
  /\ lastOp = "evaluate" =>
       /\ Len(response.alerts) <= BudgetOf(response.metrics.uniqueChatters)
       /\ Len(response.alerts) <= 8

\* the budget cut a response: the AI card and the heuristic alerts, all with
\* different texts, were more than B, and B were returned
C26_Witness ==
  /\ lastOp = "evaluate"
  /\ Len(response.alerts) = BudgetOf(response.metrics.uniqueChatters)
  /\ Len(response.finalAlerts) = 1
  /\ Len(response.heuristicAlerts) + 1 > BudgetOf(response.metrics.uniqueChatters)
  /\ Cardinality({response.heuristicAlerts[k].message :
                    k \in 1..Len(response.heuristicAlerts)})
       = Len(response.heuristicAlerts)


(* -------------------------- detector properties ------------------------ *)
\* the candidates of the last cycle whose cooldown key is of the given names
CandidatesNamed(names) ==
  {k \in 1..Len(response.candidates) : response.candidates[k].key.name \in names}

\* the momentum-drop condition for a baseline that is not ready
MomentumDropped ==
  response.metrics.trend <= -20 /\ response.metrics.messageRate <= 12

\* C29 (detector independence): in a cycle whose inputs meet the
\* momentum-drop condition, the momentum-drop detector yields its candidate,
\* whatever the tone-dip detector's inputs are.
C29_MomentumIndependent ==
  (lastOp = "evaluate" /\ ~response.empty /\ MomentumDropped) =>
    CandidatesNamed({"momentum-drop"}) # {}

SurgeNames == {"velocity-surge-negative", "velocity-surge-positive",
               "velocity-surge-monitor"}
\* the surge threshold for a baseline that is not ready
SurgeMet ==
  /\ response.latest - response.startedAt >= 30000
  /\ response.metrics.uniqueChatters >= 5
  /\ response.metrics.messageRate >= 20 \/ response.metrics.trend >= 15

\* C30 (velocity-surge classification): a cycle in which the surge threshold
\* is met yields one velocity-surge candidate and no cycle yields more; it is
\* the negative one whenever the batch holds a toxic, critical or sarcastic
\* message, the positive one only if the batch holds no negative-tone
\* message, and the neutral monitor otherwise.
C30_SurgeClassification ==
  (lastOp = "evaluate" /\ ~response.empty) =>
    /\ Cardinality(CandidatesNamed(SurgeNames)) <= 1
    /\ SurgeMet => Cardinality(CandidatesNamed(SurgeNames)) = 1
    /\ (SurgeMet /\ response.tones \cap {"toxic", "critical", "sarcastic"} # {}) =>
         CandidatesNamed({"velocity-surge-negative"}) # {}
    /\ CandidatesNamed({"velocity-surge-positive"}) # {} =>
         response.tones \cap NEGATIVE_TONES = {}
    /\ (SurgeMet /\ response.tones \cap NEGATIVE_TONES = {}) =>
         CandidatesNamed({"velocity-surge-negative"}) = {}

\* a surge with a sarcastic message under a hype message was classified
\* negative
C30_Witness ==
  /\ lastOp = "evaluate"
  /\ SurgeMet
  /\ "sarcastic" \in response.tones
  /\ "hype" \in response.tones
  /\ CandidatesNamed({"velocity-surge-negative"}) # {}


(* ----------------------------- spike history --------------------------- *)
\* C31: the spike history holds at most 20 events, most recent first with
\* strictly decreasing timestamps and distinct ids; an ingest either leaves
\* it alone or puts the event it returns in front of the unmodified previous
\* entries, dropping only the oldest beyond the cap; a reset empties it.
C31_SpikeHistory ==
  [][LET old == aggregator.events
         new == aggregator'.events
     IN /\ Len(new) <= 20
        /\ \A i \in 1..(Len(new) - 1) : new[i].timestamp > new[i + 1].timestamp
        /\ \A i, j \in 1..Len(new) : i # j => new[i].id # new[j].id
        /\ \/ new = old
           \/ lastOp' = "reset" /\ new = << >>
           \/ /\ Ingested'
              /\ new # << >>
              /\ new[1] = snapshot'.event
              /\ Len(new) = Min(Len(old) + 1, 20)
              /\ Tail(new) = SubSeq(old, 1, Len(new) - 1)]_vars

\* a full history whose oldest event has been dropped for a new one
C31_Witness ==
  /\ Ingested
  /\ snapshot.event # NoEvent
  /\ Len(aggregator.events) = 20
  /\ Len(spikes) > 20
  /\ aggregator.events[1] = snapshot.event


(* ------------------------------ empty batch ---------------------------- *)
\* C32: a request whose message list is empty is answered with exactly one
\* alert, the low-priority neutral calm alert, with ai = null and an all-zero
\* tone summary; it writes no cooldown entry and no author-memory entry.
C32_EmptyBatchIsCalm ==
  [][(lastOp' = "evaluate" /\ response'.messages = << >>) =>
       /\ Len(response'.alerts) = 1
       /\ response'.alerts[1].message = calmAlertMessage
       /\ response'.alerts[1].priority = "low"
       /\ response'.alerts[1].tone = "neutral"
       /\ response'.alerts[1].updatedAt = clock'
       /\ response'.ai = NoAi
       /\ response'.toneSummary.total = 0
       /\ DOMAIN response'.toneSummary.counts = {}
       /\ \A k \in {"positive", "negative", "toxic"} :
            /\ response'.toneSummary.recent[k] = 0
            /\ response'.toneSummary.ratios[k] = 0
       /\ alertCooldowns' = alertCooldowns
       /\ coachAiCooldownUntil' = coachAiCooldownUntil
       /\ \A a \in DOMAIN sessionAuthorMemory' :
            /\ a \in DOMAIN sessionAuthorMemory
            /\ sessionAuthorMemory'[a] = sessionAuthorMemory[a]]_vars

\* an empty batch answered by a route that holds cooldown entries and
\* remembered authors from earlier batches
C32_Witness ==
  /\ Evaluated
  /\ response.messages = << >>
  /\ DOMAIN alertCooldowns # {}
  /\ DOMAIN sessionAuthorMemory # {}
  /\ response.alerts = <<buildCalmAlert(clock)>>


(* ----------------------------- EMA convergence ------------------------- *)
\* the value has been fed unchanged over at least ten long time constants
FedLong == applied.fn = "updateBaseline" /\ applied.fed >= 10 * LONG_EMA_SECONDS * 1000

\* C33 (as stated): a constant value v fed for at least 10 * 180 s of
\* accumulated dt leaves short and long within 1% of v.
C33_WithinOnePercent ==
  FedLong =>
    /\ Abs(applied.state.short - applied.value * Milli) * 100 <= applied.value * Milli
    /\ Abs(applied.state.long - applied.value * Milli) * 100 <= applied.value * Milli

\* C33 (amended): a constant value v fed for at least 10 * 180 s of
\* accumulated dt leaves short and long within exp(-10) < 1/20000 of their
\* distance from v when v was fed first (two thousandths of rounding allowed),
\* hence within 1% of v when that distance is at most 200 v; the variance
\* never exceeds the larger of its first value and that squared distance, and
\* a single update spanning the whole time leaves it there; when v is also the
\* seeding sample, every update leaves short = long = v and variance = 0
\* exactly.
C33_EmaConvergence ==
  applied.fn = "updateBaseline" =>
    /\ FedLong =>
         /\ Abs(applied.state.short - applied.value * Milli)
              <= applied.gapShort \div 20000 + 2
         /\ Abs(applied.state.long - applied.value * Milli)
              <= applied.gapLong \div 20000 + 2
         /\ (applied.gapShort <= 200 * applied.value * Milli
               /\ applied.gapLong <= 200 * applied.value * Milli
               /\ applied.value >= 1) =>
              /\ Abs(applied.state.short - applied.value * Milli) * 100
                   <= applied.value * Milli
              /\ Abs(applied.state.long - applied.value * Milli) * 100
                   <= applied.value * Milli
    /\ applied.state.variance
         <= Max(applied.variance, MulDiv(applied.gapLong, applied.gapLong, Milli))
    /\ (applied.gapShort = 0 /\ applied.gapLong = 0 /\ applied.variance = 0) =>
         /\ applied.state.short = applied.value * Milli
         /\ applied.state.long = applied.value * Milli
         /\ applied.state.variance = 0

\* a baseline that stood near 300 (with a variance) and was then fed 1 over
\* 1800 s
C33_Witness ==
  /\ FedLong
  /\ applied.value = 1
  /\ applied.gapLong >= 100 * Milli
  /\ applied.variance > 0
  /\ applied.state.long # applied.value * Milli


(* --------------------------- token / emote ranking --------------------- *)
\* the records of the session at most ten minutes older than the last one
Window ==
  LET recent(m) == LastRecord.timestamp - m.timestamp <= TEN_MINUTES
  IN SelectSeq(ingested, recent)
\* positions <<message, token>> of the window where the token is name and is
\* neither a platform emote nor an emote code of its own message
TokenHits(name) ==
  {p \in {<<i, k>> : i \in 1..Len(Window), k \in 1..5} :
     /\ p[2] <= Len(Window[p[1]].tokens)
     /\ Window[p[1]].tokens[p[2]] = name
     /\ name \notin GLOBAL_TWITCH_EMOTES
     /\ \A e \in 1..Len(Window[p[1]].emotes) :
          lowerCased(Window[p[1]].emotes[e].code) # name}
\* the key under which an emote is counted
EmoteKey(emote) == lowerCased(IF emote.id # NoId THEN emote.id ELSE emote.code)
EmoteHits(key) ==
  {p \in {<<i, k>> : i \in 1..Len(Window), k \in 1..5} :
     /\ p[2] <= Len(Window[p[1]].emotes)
     /\ EmoteKey(Window[p[1]].emotes[p[2]]) = key}
\* where a name or key is met first
First(hits) == CHOOSE p \in hits : \A q \in hits : p[1] < q[1] \/ (p[1] = q[1] /\ p[2] <= q[2])
Earlier(p, q) == p[1] < q[1] \/ (p[1] = q[1] /\ p[2] < q[2])
TokenNames == UNION {{Window[i].tokens[k] : k \in 1..Len(Window[i].tokens)} : i \in 1..Len(Window)}
EmoteKeys == UNION {{EmoteKey(Window[i].emotes[k]) : k \in 1..Len(Window[i].emotes)} :
                      i \in 1..Len(Window)}
\* a token that is, case-insensitively, the code or id of a ranked emote
CollidesWithTopEmote(name) ==
  \E j \in 1..Len(snapshot.topEmotes) :
    \/ lowerCased(snapshot.topEmotes[j].code) = lowerCased(name)
    \/ /\ snapshot.topEmotes[j].id # NoId
       /\ lowerCased(snapshot.topEmotes[j].id) = lowerCased(name)
\* x is ranked above y: a larger count, or the same count and met first
Above(cx, fx, cy, fy) == cx > cy \/ (cx = cy /\ Earlier(fx, fy))

\* C34: topTokens and topEmotes each hold at most 6 entries, by non-increasing
\* count over the trailing 10-minute window with ties in first-encountered
\* order; a token that is a platform emote code or an emote code of its own
\* message is not counted; no entry of topTokens equals, case-insensitively,
\* the code or id of an entry of topEmotes.
C34_TokenEmoteRanking ==
  Ingested =>
    LET tt == snapshot.topTokens
        te == snapshot.topEmotes
        eligible == {n \in TokenNames : TokenHits(n) # {} /\ ~CollidesWithTopEmote(n)}
    IN /\ Len(tt) <= 6
       /\ Len(te) <= 6
       /\ \A i \in 1..Len(tt) :
            /\ tt[i].name \in eligible
            /\ tt[i].count = Cardinality(TokenHits(tt[i].name))
            /\ tt[i].name \notin GLOBAL_TWITCH_EMOTES
            /\ ~CollidesWithTopEmote(tt[i].name)
       /\ \A i, j \in 1..Len(tt) :
            i < j => Above(tt[i].count, First(TokenHits(tt[i].name)),
                           tt[j].count, First(TokenHits(tt[j].name)))
       /\ \A n \in eligible :
            (\A i \in 1..Len(tt) : tt[i].name # n) =>
              /\ Len(tt) = 6
              /\ Above(tt[6].count, First(TokenHits(tt[6].name)),
                       Cardinality(TokenHits(n)), First(TokenHits(n)))
       /\ \A i \in 1..Len(te) :
            /\ EmoteKey(te[i]) \in EmoteKeys
            /\ te[i].count = Cardinality(EmoteHits(EmoteKey(te[i])))
       /\ \A i, j \in 1..Len(te) :
            i < j => Above(te[i].count, First(EmoteHits(EmoteKey(te[i]))),
                           te[j].count, First(EmoteHits(EmoteKey(te[j]))))
       /\ \A k \in EmoteKeys :
            (\A i \in 1..Len(te) : EmoteKey(te[i]) # k) =>
              /\ Len(te) = 6
              /\ Above(te[6].count, First(EmoteHits(EmoteKey(te[6]))),
                       Cardinality(EmoteHits(k)), First(EmoteHits(k)))

\* both rankings full with a seventh candidate left out, ties among the
\* ranked tokens, a token left uncounted as the emote of its own message and
\* a counted token left out for being the code of a ranked emote
C34_Witness ==
  /\ Ingested
  /\ Len(snapshot.topTokens) = 6
  /\ Len(snapshot.topEmotes) = 6
  /\ Cardinality(EmoteKeys) > 6
  /\ \E n \in TokenNames : TokenHits(n) # {} /\ CollidesWithTopEmote(n)
  /\ \E n \in TokenNames : TokenHits(n) = {}
  /\ snapshot.topTokens[1].count > snapshot.topTokens[2].count
  /\ snapshot.topTokens[2].count = snapshot.topTokens[3].count


(* ----------------------- ingestion and the session --------------------- *)
\* C35: whenever no session is active the aggregator's buffer is empty (and
\* no chat payload is buffered for the live feed): a handler suspended when
\* the session ended neither ingests its record into the reset aggregator nor
\* posts updates for the ended session.
C35_NoIngestionOutsideSession ==
  ~activeStreamId => (aggregator.messages = << >> /\ pendingMessages = << >>)


(* ------------------------ re-emission of one key ----------------------- *)
\* C36: for one key evaluated with a fixed cooldown, in a run of consecutive
\* emissions each less than the cooldown after the previous one, priorities
\* strictly increase from one emission to the next; hence such a run holds at
\* most three alerts (low, medium, high).
C36_BoundedReemission ==
  applied.fn = "shouldEmitAlert" =>
    /\ \A i \in 1..(Len(applied.run) - 1) :
         /\ applied.run[i + 1].timestamp - applied.run[i].timestamp
              < DEFAULT_ALERT_COOLDOWN_MS
         /\ priorityWeight(applied.run[i + 1].priority)
              > priorityWeight(applied.run[i].priority)
    /\ Len(applied.run) <= 3
    /\ \A i \in 1..Len(applied.run) :
         i = Len(applied.run) =>
           cooldownGet(alertCooldowns, TriedKey) = applied.run[i]

\* low, medium and high emitted for the key inside one cooldown, the last of
\* them stamped before the first, and a further candidate refused
C36_Witness ==
  /\ applied.fn = "shouldEmitAlert"
  /\ Len(applied.run) = 3
  /\ applied.run[3].timestamp < applied.run[1].timestamp
  /\ applied.blocked


(* --------------------------- bursts of messages ------------------------ *)
\* one chatter sending evenly spaced messages that share a timestamp or are
\* 100 ms apart: every update after the first is charged the 0.25 s minimum dt
MaxBurst == 362
BurstDeltas == {0, 100}

OnBurstMessage(d) ==
  /\ nIngest < MaxBurst
  /\ Len(ingested) >= 2 =>
        d = ingested[Len(ingested)].timestamp - ingested[Len(ingested) - 1].timestamp
  /\ Deliver("ann", d, 0)

BurstNext == \E d \in BurstDeltas : OnBurstMessage(d)

BurstSpec == Init /\ [][BurstNext]_vars

(* --------------------------- chatters and newcomers -------------------- *)
\* C37: in every snapshot returned by ingest, newcomers <= uniqueChatters <=
\* the number of records in the buffer, for every sequence of ingested
\* records since the last reset.
C37_NewcomersAreChatters ==
  Ingested =>
    /\ snapshot.newcomers <= snapshot.uniqueChatters
    /\ snapshot.uniqueChatters <= Len(aggregator.messages)


(* --------------------------- the record counts itself ------------------ *)
\* C38: every snapshot returned by ingest for a record with a valid timestamp
\* has messageRate >= 1 and uniqueChatters >= 1, the message-rate baseline's
\* long value is >= 1 once initialized, and the snapshot never shows the idle
\* condition messageRate = 0 and uniqueChatters = 0.
C38_RecordCountsItself ==
  Ingested =>
    /\ snapshot.messageRate >= 1
    /\ snapshot.uniqueChatters >= 1
    /\ RateBaseline.long # Null => RateBaseline.long >= Milli
    /\ ~(snapshot.messageRate <= 0 /\ snapshot.uniqueChatters <= 0)

\* a record that arrives after everything before it has left both windows and
\* counts only itself, the long baseline still above one message a minute
C38_Witness ==
  /\ Ingested
  /\ Len(ingested) >= 3
  /\ snapshot.messageRate = 1
  /\ snapshot.uniqueChatters = 1
  /\ RateBaseline.long > Milli


(* --------------------------- readiness and stream time ----------------- *)
LatestTimestamp(records) ==
  CHOOSE t \in {records[i].timestamp : i \in 1..Len(records)} :
    \A i \in 1..Len(records) : records[i].timestamp <= t

\* event time between the first record since the reset and the latest one
StreamSpan == LatestTimestamp(ingested) - ingested[1].timestamp

\* ready is reported only after 90 s of stream time
ReadyAfterStreamTime ==
  Ingested =>
    \A m \in Metrics :
      snapshot.baseline[m].ready => StreamSpan >= BASELINE_READY_SECONDS * 1000

\* C39: a baseline's elapsed value never exceeds the event-time span since its
\* first sample (latest ingested timestamp minus first ingested timestamp
\* since the reset), so ready is never reported before 90 s of stream time
\* have passed, also for bursts of messages less than 250 ms apart or sharing
\* a timestamp.
C39_ReadinessReflectsStreamTime ==
  /\ Ingested =>
        \A m \in Metrics : aggregator.baselineStates[m].elapsed <= StreamSpan
  /\ ReadyAfterStreamTime

====
